---- MODULE Spec2Model ----
(***************************************************************************)
(* A model of glow_tts_train/config.py: the AudioConfig spectral engine    *)
(* (construction, normalisation, wav2mel, mel2wav, Griffin-Lim and silence *)
(* trimming, called one at a time and from two threads) and                *)
(* TrainingConfig.load_and_merge; and of make_split, make_phoneme_map and  *)
(* make_kaldi_align_csv of glow_tts_train/preprocess.py.                   *)
(*                                                                         *)
(* Numbers.  Decibel and normalised values are exact rationals <<n, d>>    *)
(* in lowest terms with d > 0, so that normalize/denormalize are computed  *)
(* as the code computes them (divisions included) and a round trip is not  *)
(* the identity by construction.  Floating-point rounding and non-finite   *)
(* values (inf, nan) are not modelled.  mel_fmax is a float in the code;   *)
(* it is held in half-hertz units (mel_fmax2 = 2 * mel_fmax) so that       *)
(* x.5 Hz values are integers.                                             *)
(* The durations of trim_silence given in seconds (margin_sec, keep_sec)   *)
(* are held in milliseconds and are non-negative.                          *)
(*                                                                         *)
(* Libraries.  librosa and numpy are modelled as the releases the code is  *)
(* written against behave (librosa.filters.mel called positionally and     *)
(* np.complex both need librosa < 0.10 and numpy < 1.24): stft and istft   *)
(* centre their frames, rms pads by reflection or with zeros depending on  *)
(* the release, and numpy refuses to pad an empty array by reflection.     *)
(* Those releases run on Python 3.7 to 3.11; collections.Mapping, which    *)
(* recursive_update reads, exists only before 3.10.                        *)
(***************************************************************************)
EXTENDS Integers, Sequences, FiniteSets, TLC

VARIABLES cfg,        \* the AudioConfig fields (self)
          built,      \* outcome of __post_init__: "none", "ok", "AssertionError"
          pc,         \* position of the running call ("idle" when none runs)
          caller,     \* the suspended frame of griffin_lim's caller, or Nil
          locals,     \* local variables of the running (or last finished) call
          calls,      \* the calls the running top-level operation has made, in order
          ret,        \* outcome of the last finished top-level call
          x_db,       \* argument of the last normalize call
          mel_norm,   \* result of the last normalize call
          mel_denorm, \* result of denormalize applied to mel_norm
          np_random,  \* state of numpy's global random generator
          rms_pad,    \* the padding the installed librosa.feature.rms uses
          parked,     \* the call of the other thread, suspended by the interpreter
          py_mapping  \* whether the running Python has collections.Mapping

objVars == <<cfg, built>>
callVars == <<pc, caller, locals, calls, ret>>
normVars == <<x_db, mel_norm, mel_denorm>>
envVars == <<np_random, rms_pad, parked, py_mapping>>
vars == <<objVars, callVars, normVars, envVars>>

(***************************************************************************)
(* Exact rational arithmetic                                               *)
(***************************************************************************)
Abs(n) == IF n < 0 THEN -n ELSE n

RECURSIVE Gcd(_, _)
Gcd(a, b) == IF b = 0 THEN a ELSE Gcd(b, a % b)

Rat(n, d) ==
    LET s == IF d < 0 THEN -1 ELSE 1
        g == Gcd(Abs(n), Abs(d))
    IN  <<(s * n) \div g, (s * d) \div g>>

Int2R(n) == <<n, 1>>
RAdd(a, b) == Rat(a[1] * b[2] + b[1] * a[2], a[2] * b[2])
RSub(a, b) == Rat(a[1] * b[2] - b[1] * a[2], a[2] * b[2])
RMul(a, b) == Rat(a[1] * b[1], a[2] * b[2])
RDiv(a, b) == Rat(a[1] * b[2], a[2] * b[1])
RNeg(a) == <<-a[1], a[2]>>
RLe(a, b) == a[1] * b[2] <= b[1] * a[2]
RLt(a, b) == a[1] * b[2] < b[1] * a[2]
RMin(a, b) == IF RLe(a, b) THEN a ELSE b
RMax(a, b) == IF RLe(a, b) THEN b ELSE a

\* np.clip(x, lo, hi) == minimum(maximum(x, lo), hi)
Clip(x, lo, hi) == RMin(RMax(x, lo), hi)

(***************************************************************************)
(* Outcomes of a call                                                      *)
(***************************************************************************)
Nil == [kind |-> "nil"]
Value(v) == [kind |-> "value", val |-> v]
Raise(e) == [kind |-> "raise", exc |-> e]

\* What the interpreter keeps of a thread it has suspended: the position,
\* frames, call history and last result of that thread.
Context(p, c, l, h, r) ==
    [pc |-> p, caller |-> c, locals |-> l, calls |-> h, ret |-> r]

\* A thread that has made no call.
IdleContext == Context("idle", Nil, Nil, <<>>, Nil)

(***************************************************************************)
(* Normalisation (config.py, "Normalization")                              *)
(***************************************************************************)
\* Rescale with the "- min_level_db" term of line 137 left out.
Rescale_mut(c, mel_db) ==
    LET base == RDiv(RSub(mel_db, c.ref_level_db), RNeg(c.min_level_db))
    IN  IF c.symmetric_norm
        THEN RSub(RMul(RMul(Int2R(2), c.max_norm), base), c.max_norm)
        ELSE RMul(c.max_norm, base)

\* normalize up to, not including, the clip: lines 137-142 and 147.
Rescale(c, mel_db) ==
    LET base == RDiv(RSub(RSub(mel_db, c.ref_level_db), c.min_level_db),
                     RNeg(c.min_level_db))
    IN  IF c.symmetric_norm
        THEN RSub(RMul(RMul(Int2R(2), c.max_norm), base), c.max_norm)
        ELSE RMul(c.max_norm, base)

\* The lower clip bound of the mode: -max_norm (symmetric) or 0 (asymmetric).
LowerBound(c) == IF c.symmetric_norm THEN RNeg(c.max_norm) ELSE Int2R(0)

normalize(c, mel_db) ==
    IF c.clip_norm
    THEN Clip(Rescale(c, mel_db), LowerBound(c), c.max_norm)
    ELSE Rescale(c, mel_db)

\* denormalize applied to a clipped (or, were it bound, unclipped) value.
Unscale(c, v) ==
    LET d == IF c.symmetric_norm
             THEN RAdd(RDiv(RMul(RAdd(v, c.max_norm), RNeg(c.min_level_db)),
                            RMul(Int2R(2), c.max_norm)),
                       c.min_level_db)
             ELSE RAdd(RDiv(RMul(v, RNeg(c.min_level_db)), c.max_norm),
                       c.min_level_db)
    IN  RAdd(d, c.ref_level_db)

\* denormalize clipping to [0, max_norm] whatever the mode.
denormalize_mut(c, mel_db) ==
    IF c.clip_norm
    THEN Value(Unscale(c, Clip(mel_db, Int2R(0), c.max_norm)))
    ELSE Raise("UnboundLocalError")

\* mel_denorm is assigned only under `if self.clip_norm:` (lines 157-158 and
\* 165-166); with clip_norm off, lines 160 and 168 read an unbound local.
denormalize(c, mel_db) ==
    IF c.clip_norm
    THEN Value(Unscale(c, Clip(mel_db, LowerBound(c), c.max_norm)))
    ELSE Raise("UnboundLocalError")

(***************************************************************************)
(* Configurations                                                          *)
(***************************************************************************)
\* The dataclass defaults (lines 15-37).  mel_fmax is Optional: <<>> is None,
\* <<v>> is the value v in half-hertz.
DefaultConfig ==
    [filter_length |-> 1024, hop_length |-> 256, win_length |-> 1024,
     mel_channels |-> 80, sample_rate |-> 22050, mel_fmax2 |-> <<16000>>,
     ref_level_db |-> Int2R(20), spec_gain |-> Int2R(1),
     signal_norm |-> TRUE, min_level_db |-> Int2R(-100),
     max_norm |-> Int2R(1), clip_norm |-> TRUE, symmetric_norm |-> TRUE,
     do_trim_silence |-> FALSE, trim_silence_db |-> 60]

\* Lines 40-41: assert self.mel_fmax <= self.sample_rate // 2, skipped when
\* mel_fmax is None.  In half-hertz: mel_fmax2 <= 2 * (sample_rate // 2).
\* Lines 44-52 (the filterbank and its pseudo-inverse) follow only when the
\* assertion passed.
PostInit(c) ==
    IF c.mel_fmax2 # <<>> /\ ~(c.mel_fmax2[1] <= 2 * (c.sample_rate \div 2))
    THEN "AssertionError"
    ELSE "ok"

\* Largest decibel magnitude of the small normaliser inputs.
MaxDb == 5

\* Configurations of the normaliser: the defaults and a small level range,
\* in both modes, with and without clipping.
NormConfigs ==
    {[DefaultConfig EXCEPT !.min_level_db = Int2R(m), !.ref_level_db = Int2R(r),
                           !.max_norm = Int2R(n), !.symmetric_norm = s,
                           !.clip_norm = k] :
        m \in {-100, -4}, r \in {20, 0}, n \in {1, 4},
        s \in BOOLEAN, k \in BOOLEAN}

\* Decibel inputs: half-integer steps around zero, and the levels of the
\* documented scenario (min_level_db = -100, ref_level_db = 20).
NormInputs ==
    {Rat(k, 2) : k \in (-2 * MaxDb)..(2 * MaxDb)}
        \cup {Int2R(v) : v \in {-100, -80, -90, 20, 70, 120}}

(***************************************************************************)
(* The normaliser called on scalars                                        *)
(***************************************************************************)
IdleCall ==
    /\ pc = "idle"
    /\ caller = Nil
    /\ locals = Nil
    /\ calls = <<>>
    /\ ret = Nil

NormalizeCall(x) ==
    /\ built = "ok"
    /\ x_db' = Value(x)
    /\ mel_norm' = Value(normalize(cfg, x))
    /\ mel_denorm' = Nil
    /\ UNCHANGED <<objVars, callVars, envVars>>

DenormalizeCall ==
    /\ built = "ok"
    /\ mel_norm.kind = "value"
    /\ mel_denorm' = denormalize(cfg, mel_norm.val)
    /\ UNCHANGED <<objVars, callVars, envVars, x_db, mel_norm>>

\* No normalize call made yet.
NormFresh ==
    /\ x_db = Nil
    /\ mel_norm = Nil
    /\ mel_denorm = Nil

\* The installed librosa (either padding) and a freshly seeded generator.
EnvInit ==
    /\ np_random = 0
    /\ rms_pad \in {"reflect", "constant"}
    /\ parked = IdleContext
    /\ py_mapping = TRUE

InitNorm ==
    /\ cfg \in NormConfigs
    /\ built = PostInit(cfg)
    /\ IdleCall
    /\ NormFresh
    /\ np_random = 0
    /\ rms_pad = "reflect"
    /\ parked = IdleContext
    /\ py_mapping = TRUE

NextNorm ==
    \/ \E x \in NormInputs : NormalizeCall(x)
    \/ DenormalizeCall

SpecNorm == InitNorm /\ [][NextNorm]_vars

(***************************************************************************)
(* Claims about the normaliser                                             *)
(***************************************************************************)
C2Scenario ==
    /\ cfg.symmetric_norm
    /\ cfg.max_norm = Int2R(1)
    /\ cfg.min_level_db = Int2R(-100)
    /\ cfg.ref_level_db = Int2R(20)

\* C2 as stated: in the scenario (symmetric, max_norm 1, min_level_db -100,
\* ref_level_db 20) normalize takes 20 dB to -max_norm before clipping and
\* 120 dB to +max_norm.
C2_AsStated ==
    (C2Scenario /\ mel_norm.kind = "value") =>
        /\ x_db.val = Int2R(20) => Rescale(cfg, x_db.val) = RNeg(cfg.max_norm)
        /\ x_db.val = Int2R(120) => Rescale(cfg, x_db.val) = cfg.max_norm

\* C2 amended: in the scenario normalize takes ref_level_db + min_level_db
\* (-80 dB) to exactly -max_norm and ref_level_db (20 dB) to exactly
\* +max_norm, before clipping and in the value returned.
C2_RefMapsToMax ==
    (C2Scenario /\ mel_norm.kind = "value") =>
        /\ x_db.val = Int2R(-80) =>
              /\ Rescale(cfg, x_db.val) = RNeg(cfg.max_norm)
              /\ mel_norm.val = RNeg(cfg.max_norm)
        /\ x_db.val = Int2R(20) =>
              /\ Rescale(cfg, x_db.val) = cfg.max_norm
              /\ mel_norm.val = cfg.max_norm

C2_Witness ==
    /\ C2Scenario
    /\ mel_norm.kind = "value"
    /\ x_db.val = Int2R(20)
    /\ mel_norm.val = Int2R(1)

InLevelRange(c, x) == RLe(c.min_level_db, x) /\ RLe(x, c.ref_level_db)

\* C3: with clip_norm off, in both modes, denormalize(normalize(x)) returns x
\* for every x in [min_level_db, ref_level_db], and does not raise.
C3_RoundTripUnclipped ==
    (~cfg.clip_norm /\ mel_denorm.kind # "nil" /\ InLevelRange(cfg, x_db.val)) =>
        /\ mel_denorm.kind = "value"
        /\ mel_denorm.val = x_db.val

WasClipped == mel_norm.val # Rescale(cfg, x_db.val)

\* C4: with clip_norm on, in both modes, denormalize(normalize(x)) is x when
\* the normalised value was not clipped; when it was clipped the result is
\* the decibel value of the clip boundary that was hit (it normalises to the
\* lower bound, or to +max_norm) and differs from x.
C4_RoundTripClipped ==
    (cfg.clip_norm /\ mel_denorm.kind # "nil") =>
        /\ mel_denorm.kind = "value"
        /\ ~WasClipped => mel_denorm.val = x_db.val
        /\ WasClipped =>
              /\ mel_denorm.val # x_db.val
              /\ Rescale(cfg, mel_denorm.val) = mel_norm.val
              /\ IF RLt(Rescale(cfg, x_db.val), LowerBound(cfg))
                 THEN mel_norm.val = LowerBound(cfg)
                 ELSE mel_norm.val = cfg.max_norm

C4_Witness ==
    /\ cfg.clip_norm
    /\ ~cfg.symmetric_norm
    /\ mel_denorm.kind = "value"
    /\ WasClipped
    /\ mel_norm.val = LowerBound(cfg)
    /\ mel_denorm.val = RAdd(cfg.ref_level_db, cfg.min_level_db)

(***************************************************************************)
(* Construction (AudioConfig.__post_init__)                                *)
(***************************************************************************)
\* Largest of the small sample rates tried at construction.
MaxRate == 8

\* Sample rates: every small rate, odd and even, and the default with its
\* odd neighbour.
SampleRates == (1..MaxRate) \cup {22050, 22051}

\* mel_fmax given to the constructor: None, or a half-hertz value at or
\* around the Nyquist frequency of the rate.
FmaxChoices(sr) ==
    {<<>>} \cup {<<f>> : f \in {g \in (sr - 3)..(sr + 3) : g >= 0}}

\* hop_length, win_length and filter_length given to the constructor, in
\* every order.
SizeChoices == {256, 1024, 2048}

CtorConfigs ==
    {[DefaultConfig EXCEPT !.sample_rate = sr, !.mel_fmax2 = f] :
        sr \in SampleRates, f \in UNION {FmaxChoices(r) : r \in SampleRates}}
    \cup {[DefaultConfig EXCEPT !.hop_length = h, !.win_length = w,
                                !.filter_length = n] :
              h \in SizeChoices, w \in SizeChoices, n \in SizeChoices}

\* AudioConfig(...): the dataclass stores the fields, then runs __post_init__.
Construct(c) ==
    /\ built = "none"
    /\ cfg' = c
    /\ built' = PostInit(c)
    /\ x_db' = Nil
    /\ mel_norm' = Nil
    /\ mel_denorm' = Nil
    /\ UNCHANGED <<callVars, envVars>>

\* The caller lets go of the object (or of the failed attempt).
Discard ==
    /\ built # "none"
    /\ built' = "none"
    /\ cfg' = DefaultConfig
    /\ x_db' = Nil
    /\ mel_norm' = Nil
    /\ mel_denorm' = Nil
    /\ UNCHANGED <<callVars, envVars>>

InitCtor ==
    /\ cfg = DefaultConfig
    /\ built = "none"
    /\ IdleCall
    /\ NormFresh
    /\ np_random = 0
    /\ rms_pad = "reflect"
    /\ parked = IdleContext
    /\ py_mapping = TRUE

NextCtor ==
    \/ \E c \in CtorConfigs : Construct(c)
    \/ Discard
    \/ \E x \in {Int2R(0), Int2R(20)} : NormalizeCall(x)

SpecCtor == InitCtor /\ [][NextCtor]_vars

\* mel_fmax <= sample_rate / 2 over the reals (None: no upper edge given).
Nyquist(c) == c.mel_fmax2 = <<>> \/ c.mel_fmax2[1] <= c.sample_rate

\* C1: construction succeeds for every configuration with
\* mel_fmax <= sample_rate / 2 (equality included, odd or even rate) and
\* fails at construction for every configuration with mel_fmax above it, so
\* that no operation ever runs on such a configuration.
C1_NyquistAtConstruction ==
    /\ built = "ok" => Nyquist(cfg)
    /\ built = "AssertionError" => ~Nyquist(cfg)
    /\ mel_norm.kind = "value" => (built = "ok" /\ Nyquist(cfg))

\* hop_length <= win_length <= filter_length (the FFT size).
SizesOrdered(c) ==
    c.hop_length <= c.win_length /\ c.win_length <= c.filter_length

\* C12: constructing an AudioConfig whose sizes violate
\* hop_length <= win_length <= filter_length fails at construction, and no
\* operation ever runs on such a configuration.
C12_SizesAtConstruction ==
    /\ built = "ok" => SizesOrdered(cfg)
    /\ mel_norm.kind = "value" => SizesOrdered(cfg)

(***************************************************************************)
(* Signals and the library calls of the pipeline                           *)
(*                                                                         *)
(* A waveform is [len, lo, hi]: len samples of which those at indices      *)
(* lo .. hi-1 are loud (one common amplitude) and the others are zero;     *)
(* lo = hi is an all-zero signal.  A spectrogram is [rows, frames, e, ops]:*)
(* its shape, one representative entry e (Value(r) while the entry is a    *)
(* decibel or normalised number, Nil otherwise) and the operations that    *)
(* produced it from the call's argument, in order.                         *)
(***************************************************************************)
Min(a, b) == IF a <= b THEN a ELSE b
Max(a, b) == IF a <= b THEN b ELSE a

Wav(n, a, b) == [len |-> n, lo |-> a, hi |-> b]

\* Python's wav[start:stop] for 0 <= start and 0 <= stop.
Slice(w, start, stop) ==
    LET b == Min(start, w.len)
        e == Min(stop, w.len)
        n == Max(0, e - b)
    IN  Wav(n, Min(Max(w.lo - b, 0), n), Min(Max(w.hi - b, 0), n))

\* Line 192, wav[margin:-margin]: the stop index -margin counts from the end,
\* and is index 0 when margin is 0.
StripMargin(w, margin) ==
    Slice(w, margin, IF margin = 0 THEN 0 ELSE Max(w.len - margin, 0))

\* int(self.sample_rate * seconds), the duration given in milliseconds.
Samples(c, ms) == (c.sample_rate * ms) \div 1000

\* numpy's reflect padding: the sample index that padded position i shows.
Reflect(i, n) ==
    IF n = 1 THEN 0
    ELSE LET j == i % (2 * (n - 1))
         IN  IF j < n THEN j ELSE 2 * (n - 1) - j

\* Whether padded position i (i < 0 or i >= len lie in the padding) is loud.
LoudAt(w, i, pad) ==
    IF i >= 0 /\ i < w.len
    THEN w.lo <= i /\ i < w.hi
    ELSE /\ pad = "reflect"
         /\ LET j == Reflect(i, w.len) IN w.lo <= j /\ j < w.hi

\* librosa.feature.rms frames the centred, padded signal.
RmsFrames(w, frame_length, hop) ==
    1 + (w.len + 2 * (frame_length \div 2) - frame_length) \div hop

\* librosa.effects._signal_to_frame_nonsilent: frame t is non-silent when its
\* power, in decibels below the loudest frame, is above -top_db.  The loudest
\* frame itself is at 0 dB; a frame holding a loud sample is within 60 dB of
\* it; an all-zero frame is not, unless every frame is all-zero.
NonSilent(w, t, top_db, frame_length, hop, pad) ==
    /\ top_db > 0
    /\ \/ w.lo = w.hi
       \/ \E i \in (t * hop - frame_length \div 2)..
                   (t * hop - frame_length \div 2 + frame_length - 1) :
              LoudAt(w, i, pad)

\* librosa.effects.trim's index pair [start, end].  rms pads the signal by
\* reflection through librosa 0.8 and with zeros in later releases; numpy
\* refuses to pad an empty signal by reflection.
Trim(w, top_db, frame_length, hop, pad) ==
    IF w.len = 0 /\ pad = "reflect"
    THEN Raise("ValueError")
    ELSE LET nz == {t \in 0..(RmsFrames(w, frame_length, hop) - 1) :
                        NonSilent(w, t, top_db, frame_length, hop, pad)}
         IN  IF nz = {}
             THEN Value(<<0, 0>>)
             ELSE LET first == CHOOSE t \in nz : \A u \in nz : t <= u
                      last == CHOOSE t \in nz : \A u \in nz : u <= t
                  IN  Value(<<first * hop, Min(w.len, (last + 1) * hop)>>)

\* trim_silence with lines 202-203 not clamped to the signal bounds.
trim_silence_mut(c, w, trim_db, margin_ms, keep_ms, pad) ==
    LET margin == Samples(c, margin_ms)
        stripped == StripMargin(w, margin)
        found == Trim(stripped, trim_db, c.win_length, c.hop_length, pad)
    IN  IF found.kind = "raise"
        THEN found
        ELSE LET keep_samples == Samples(c, keep_ms)
                 trim_start == found.val[1] - keep_samples
                 trim_end == found.val[2] + keep_samples
             IN  [kind |-> "value",
                  val |-> Slice(stripped, Max(0, trim_start), trim_end),
                  stripped |-> stripped,
                  trim_index |-> found.val,
                  trim_start |-> trim_start,
                  trim_end |-> trim_end]

\* trim_silence (lines 180-206).  The result keeps the stripped signal and
\* the indices, for the claims to read.
trim_silence(c, w, trim_db, margin_ms, keep_ms, pad) ==
    LET margin == Samples(c, margin_ms)
        stripped == StripMargin(w, margin)
        found == Trim(stripped, trim_db, c.win_length, c.hop_length, pad)
    IN  IF found.kind = "raise"
        THEN found
        ELSE LET keep_samples == Samples(c, keep_ms)
                 trim_start == Max(0, found.val[1] - keep_samples)
                 trim_end == Min(stripped.len, found.val[2] + keep_samples)
             IN  [kind |-> "value",
                  val |-> Slice(stripped, trim_start, trim_end),
                  stripped |-> stripped,
                  trim_index |-> found.val,
                  trim_start |-> trim_start,
                  trim_end |-> trim_end]

(***************************************************************************)
(* trim_silence called on its own                                          *)
(***************************************************************************)
\* Longest of the small signals.
MaxLen == 7

Wavs == {Wav(n, a, b) : n \in 0..MaxLen, a \in 0..MaxLen, b \in 0..MaxLen}
            \ {w \in [len : 0..MaxLen, lo : 0..MaxLen, hi : 0..MaxLen] :
                   ~(w.lo <= w.hi /\ w.hi <= w.len)}

\* A small engine: 100 samples per second, frames of 4 samples every 2.
SmallConfig ==
    [DefaultConfig EXCEPT !.sample_rate = 100, !.filter_length = 4,
                          !.hop_length = 2, !.win_length = 4,
                          !.mel_channels = 3, !.mel_fmax2 = <<80>>]

\* One second of sound at the default rate, and the same with a silent
\* lead-in and tail.
LongWavs == {Wav(22050, 0, 22050), Wav(22050, 5000, 15000)}

\* margin_sec, keep_sec (in milliseconds) and trim_db given to trim_silence.
MarginChoices == {0, 10, 20, 30}
KeepChoices == {0, 10, 100}
TrimDbChoices == {0, 60}

TrimFrame(w, trim_db, margin_ms, keep_ms) ==
    [kind |-> "frame", fn |-> "trim_silence", wav |-> w, trim_db |-> trim_db,
     margin_ms |-> margin_ms, keep_ms |-> keep_ms]

\* The whole of trim_silence, on the arguments of the pending call.
TrimSilenceCall ==
    /\ built = "ok"
    /\ pc = "trim_silence"
    /\ ret' = trim_silence(cfg, locals.wav, locals.trim_db, locals.margin_ms,
                           locals.keep_ms, rms_pad)
    /\ pc' = "idle"
    /\ UNCHANGED <<objVars, normVars, envVars, caller, locals, calls>>

\* A constructed engine and one pending call of trim_silence.
InitTrim ==
    /\ \/ /\ cfg = SmallConfig
          /\ locals \in {TrimFrame(w, d, m, k) :
                             w \in Wavs, d \in TrimDbChoices,
                             m \in MarginChoices, k \in KeepChoices}
       \/ /\ cfg = DefaultConfig
          /\ locals \in {TrimFrame(w, d, 10, 100) :
                             w \in LongWavs, d \in TrimDbChoices}
    /\ built = PostInit(cfg)
    /\ pc = "trim_silence"
    /\ caller = Nil
    /\ calls = <<>>
    /\ ret = Nil
    /\ NormFresh
    /\ EnvInit

NextTrim == TrimSilenceCall

SpecTrim == InitTrim /\ [][NextTrim]_vars

TrimDone ==
    /\ locals.kind = "frame"
    /\ locals.fn = "trim_silence"
    /\ pc = "idle"
    /\ ret.kind # "nil"

\* The margin in samples and the margin-stripped signal of the finished call.
TrimMargin == Samples(cfg, locals.margin_ms)
TrimStripped == StripMargin(locals.wav, TrimMargin)

\* No frame of the margin-stripped signal is above the threshold: the
\* detector finds none, or the signal is all zero.
AllSilent ==
    /\ TrimStripped.len > 0
    /\ \/ TrimStripped.lo = TrimStripped.hi
       \/ \A t \in 0..(RmsFrames(TrimStripped, cfg.win_length, cfg.hop_length) - 1) :
              ~NonSilent(TrimStripped, t, locals.trim_db, cfg.win_length,
                         cfg.hop_length, rms_pad)

\* C8: trim_silence fails with an error, and returns no empty slice, when the
\* margin exceeds half the signal length and when no frame of the
\* margin-stripped signal exceeds the threshold.
C8_TrimFails ==
    (TrimDone /\ (2 * TrimMargin > locals.wav.len \/ AllSilent)) =>
        ret.kind = "raise"

\* C9: for every signal, margin and keep_sec (durations are non-negative)
\* and every span the detector reports, the slice trim_silence returns lies
\* inside the margin-stripped signal: 0 <= start <= end <= its length, so the
\* result is no longer than it.
C9_SliceInsideStripped ==
    (TrimDone /\ ret.kind = "value") =>
        /\ 0 <= ret.trim_start
        /\ ret.trim_start <= ret.trim_end
        /\ ret.trim_end <= ret.stripped.len
        /\ ret.stripped = TrimStripped
        /\ ret.val.len = ret.trim_end - ret.trim_start
        /\ ret.val.len <= TrimStripped.len

\* A span strictly inside the signal, widened by keep_sec into both clamps.
C9_Witness ==
    /\ TrimDone
    /\ ret.kind = "value"
    /\ ret.trim_index[1] > 0
    /\ ret.trim_index[1] - Samples(cfg, locals.keep_ms) < 0
    /\ ret.trim_index[2] + Samples(cfg, locals.keep_ms) > ret.stripped.len
    /\ ret.trim_start = 0
    /\ ret.trim_end = ret.stripped.len
    /\ ret.val.len > 0

(***************************************************************************)
(* Spectrogram operations                                                  *)
(*                                                                         *)
(* The representative entry of an amplitude-domain spectrogram is held as  *)
(* its base-10 logarithm, so that log10 and 10^x are exact: an amplitude   *)
(* 10^q is the rational q, the floor 1e-5 is -5.                           *)
(***************************************************************************)
Spectrogram(rows, frames, e, ops) ==
    [rows |-> rows, frames |-> frames, e |-> e, ops |-> ops]

\* stft framing the signal without centring it.
stft_mut(c, w) ==
    IF w.len = 0
    THEN Raise("ValueError")
    ELSE Value(Spectrogram(c.filter_length \div 2 + 1,
                           (w.len - c.win_length) \div c.hop_length + 1,
                           Nil, <<"stft">>))

\* stft (lines 103-111): librosa.stft with its default center=True pads
\* n_fft // 2 samples on both sides (pad_mode="reflect", which numpy refuses
\* for an empty signal) and returns 1 + n_fft // 2 rows and
\* 1 + len // hop_length frames.
stft(c, w) ==
    IF w.len = 0
    THEN Raise("ValueError")
    ELSE Value(Spectrogram(c.filter_length \div 2 + 1,
                           1 + w.len \div c.hop_length, Nil, <<"stft">>))

\* np.abs(linear): the magnitude of a spectrogram.
np_abs(linear) == [linear EXCEPT !.ops = Append(@, "abs")]

\* istft (lines 113-117): overlap-add of the frames, the centring padding
\* cut off again: hop_length * (frames - 1) samples.  linear is the magnitude
\* of the complex spectrogram handed over (mag in the result), k numbers the
\* inverse transforms of one griffin_lim call, seed is the draw of the
\* generator the first phases came from.
istft(c, linear, k, seed) ==
    [len |-> c.hop_length * (linear.frames - 1), k |-> k, seed |-> seed,
     mag |-> linear]

\* linear_to_mel(np.abs(linear)) (lines 63 and 83-85): the product with the
\* (mel_channels x bins) filterbank; q is the logarithm of the entry read.
linear_to_mel(c, linear, q) ==
    Spectrogram(c.mel_channels, linear.frames, Value(q),
                linear.ops \o <<"abs", "linear_to_mel">>)

\* log10 of amp_to_db's default threshold 1e-5.
LogAmpFloor == -5

\* amp_to_db without the threshold: spec_gain * log10(mel_amp).
amp_to_db_mut(c, mel_amp) ==
    [mel_amp EXCEPT !.e = Value(RMul(c.spec_gain, mel_amp.e.val)),
                    !.ops = Append(@, "amp_to_db")]

\* amp_to_db (lines 93-94): spec_gain * log10(max(threshold, mel_amp)).
amp_to_db(c, mel_amp) ==
    [mel_amp EXCEPT
        !.e = Value(RMul(c.spec_gain, RMax(Int2R(LogAmpFloor), mel_amp.e.val))),
        !.ops = Append(@, "amp_to_db")]

\* db_to_amp (lines 96-97): 10 ** (mel_db / spec_gain).
db_to_amp(c, mel_db) ==
    [mel_db EXCEPT !.e = Value(RDiv(mel_db.e.val, c.spec_gain)),
                   !.ops = Append(@, "db_to_amp")]

\* log10 of mel_to_linear's default threshold 1e-10.
LogLinFloor == -10

\* An entry of np.dot(self._inv_mel_basis, mel_amp): the pseudo-inverse has
\* entries of both signs, so the entry is negative (sgn -1), zero (sgn 0) or
\* the positive number 10^log (sgn 1).
Product(sgn, log) == [sgn |-> sgn, log |-> log]

\* mel_to_linear clamping at amp_to_db's floor, whatever threshold is given.
mel_to_linear_mut(c, mel_amp, threshold, prod) ==
    Spectrogram(c.filter_length \div 2 + 1, mel_amp.frames,
                Value(IF prod.sgn = 1
                      THEN RMax(Int2R(LogAmpFloor), prod.log)
                      ELSE Int2R(LogAmpFloor)),
                Append(mel_amp.ops, "mel_to_linear"))

\* mel_to_linear (lines 87-91): np.maximum(threshold, product), entry by
\* entry; threshold is given as its log10.
mel_to_linear(c, mel_amp, threshold, prod) ==
    Spectrogram(c.filter_length \div 2 + 1, mel_amp.frames,
                Value(IF prod.sgn = 1 THEN RMax(threshold, prod.log)
                      ELSE threshold),
                Append(mel_amp.ops, "mel_to_linear"))

\* mel_to_linear(mel_amp) ** power (lines 79 and 87-91): the product with the
\* (bins x mel_channels) pseudo-inverse, clamped from below, then raised.
mel_to_linear_pow(c, mel_amp) ==
    Spectrogram(c.filter_length \div 2 + 1, mel_amp.frames, Nil,
                mel_amp.ops \o <<"mel_to_linear", "pow">>)

\* normalize and denormalize on a spectrogram, entry by entry.
normalize_mel(c, mel_db) ==
    [mel_db EXCEPT !.e = Value(normalize(c, mel_db.e.val)),
                   !.ops = Append(@, "normalize")]

denormalize_mel(c, mel_db) ==
    LET r == denormalize(c, mel_db.e.val)
    IN  IF r.kind = "raise"
        THEN r
        ELSE Value([mel_db EXCEPT !.e = r, !.ops = Append(@, "denormalize")])

(***************************************************************************)
(* wav2mel, statement by statement (lines 58-69)                           *)
(***************************************************************************)
\* Logarithms of the amplitude entries read off a mel projection: below,
\* at and above the floor.
AmpExponents == {Int2R(-7), Int2R(-5), Int2R(0), Int2R(2)}

\* An exception leaves the running call and reaches the top-level caller.
Abort(r) ==
    /\ ret' = r
    /\ pc' = "idle"

Wav2melCall(w) ==
    /\ built = "ok"
    /\ pc = "idle"
    /\ locals' = [kind |-> "frame", fn |-> "wav2mel", arg |-> w, wav |-> w,
                  linear |-> Nil, mel_amp |-> Nil, mel_db |-> Nil]
    /\ caller' = Nil
    /\ calls' = <<>>
    /\ ret' = Nil
    /\ pc' = "wav2mel_59"
    /\ UNCHANGED <<objVars, normVars, envVars>>

\* Lines 59-60, with trim_silence's default margin_sec=0.01, keep_sec=0.1.
Wav2mel_59 ==
    /\ pc = "wav2mel_59"
    /\ IF cfg.do_trim_silence
       THEN LET r == trim_silence(cfg, locals.wav, cfg.trim_silence_db,
                                  10, 100, rms_pad)
            IN  /\ calls' = Append(calls, "trim_silence")
                /\ IF r.kind = "raise"
                   THEN Abort(r) /\ UNCHANGED locals
                   ELSE /\ locals' = [locals EXCEPT !.wav = r.val]
                        /\ pc' = "wav2mel_62"
                        /\ UNCHANGED ret
       ELSE /\ pc' = "wav2mel_62"
            /\ UNCHANGED <<locals, calls, ret>>
    /\ UNCHANGED <<objVars, normVars, envVars, caller>>

\* Line 62.
Wav2mel_62 ==
    /\ pc = "wav2mel_62"
    /\ LET r == stft(cfg, locals.wav)
       IN  /\ calls' = Append(calls, "stft")
           /\ IF r.kind = "raise"
              THEN Abort(r) /\ UNCHANGED locals
              ELSE /\ locals' = [locals EXCEPT !.linear = r.val]
                   /\ pc' = "wav2mel_63"
                   /\ UNCHANGED ret
    /\ UNCHANGED <<objVars, normVars, envVars, caller>>

\* Line 63.
Wav2mel_63 ==
    /\ pc = "wav2mel_63"
    /\ \E q \in AmpExponents :
          locals' = [locals EXCEPT !.mel_amp = linear_to_mel(cfg, locals.linear, q)]
    /\ calls' = calls \o <<"abs", "linear_to_mel">>
    /\ pc' = "wav2mel_64"
    /\ UNCHANGED <<objVars, normVars, envVars, caller, ret>>

\* Line 64.
Wav2mel_64 ==
    /\ pc = "wav2mel_64"
    /\ locals' = [locals EXCEPT !.mel_db = amp_to_db(cfg, locals.mel_amp)]
    /\ calls' = Append(calls, "amp_to_db")
    /\ pc' = "wav2mel_66"
    /\ UNCHANGED <<objVars, normVars, envVars, caller, ret>>

\* Lines 66-67 with the test of signal_norm left out.
Wav2mel_66_mut ==
    /\ pc = "wav2mel_66"
    /\ locals' = [locals EXCEPT !.mel_db = normalize_mel(cfg, locals.mel_db)]
    /\ calls' = Append(calls, "normalize")
    /\ pc' = "wav2mel_69"
    /\ UNCHANGED <<objVars, normVars, envVars, caller, ret>>

\* Lines 66-67.
Wav2mel_66 ==
    /\ pc = "wav2mel_66"
    /\ IF cfg.signal_norm
       THEN /\ locals' = [locals EXCEPT
                              !.mel_db = normalize_mel(cfg, locals.mel_db)]
            /\ calls' = Append(calls, "normalize")
       ELSE UNCHANGED <<locals, calls>>
    /\ pc' = "wav2mel_69"
    /\ UNCHANGED <<objVars, normVars, envVars, caller, ret>>

\* Line 69.
Wav2mel_69 ==
    /\ pc = "wav2mel_69"
    /\ ret' = Value(locals.mel_db)
    /\ pc' = "idle"
    /\ UNCHANGED <<objVars, normVars, envVars, caller, locals, calls>>

(***************************************************************************)
(* mel2wav (lines 71-81) and griffin_lim (lines 119-129)                   *)
(***************************************************************************)
Mel2wavCall(m, n, pw) ==
    /\ built = "ok"
    /\ pc = "idle"
    /\ locals' = [kind |-> "frame", fn |-> "mel2wav", arg |-> m, mel_db |-> m,
                  num_iters |-> n, power |-> pw, mel_amp |-> Nil,
                  linear |-> Nil]
    /\ caller' = Nil
    /\ calls' = <<>>
    /\ ret' = Nil
    /\ pc' = "mel2wav_75"
    /\ UNCHANGED <<objVars, normVars, envVars>>

\* Lines 75-76.
Mel2wav_75 ==
    /\ pc = "mel2wav_75"
    /\ IF cfg.signal_norm
       THEN LET r == denormalize_mel(cfg, locals.mel_db)
            IN  /\ calls' = Append(calls, "denormalize")
                /\ IF r.kind = "raise"
                   THEN Abort(r) /\ UNCHANGED locals
                   ELSE /\ locals' = [locals EXCEPT !.mel_db = r.val]
                        /\ pc' = "mel2wav_78"
                        /\ UNCHANGED ret
       ELSE /\ pc' = "mel2wav_78"
            /\ UNCHANGED <<locals, calls, ret>>
    /\ UNCHANGED <<objVars, normVars, envVars, caller>>

\* Line 78.
Mel2wav_78 ==
    /\ pc = "mel2wav_78"
    /\ locals' = [locals EXCEPT !.mel_amp = db_to_amp(cfg, locals.mel_db)]
    /\ calls' = Append(calls, "db_to_amp")
    /\ pc' = "mel2wav_79"
    /\ UNCHANGED <<objVars, normVars, envVars, caller, ret>>

\* Line 79.
Mel2wav_79 ==
    /\ pc = "mel2wav_79"
    /\ locals' = [locals EXCEPT !.linear = mel_to_linear_pow(cfg, locals.mel_amp)]
    /\ calls' = calls \o <<"mel_to_linear", "pow">>
    /\ pc' = "mel2wav_81"
    /\ UNCHANGED <<objVars, normVars, envVars, caller, ret>>

GriffinFrame(linear, n) ==
    [kind |-> "frame", fn |-> "griffin_lim", linear |-> linear,
     num_iters |-> n, angles |-> Nil, linear_complex |-> Nil, audio |-> Nil,
     i |-> 0]

\* Line 81: the call of griffin_lim, whose result mel2wav returns as it is.
Mel2wav_81 ==
    /\ pc = "mel2wav_81"
    /\ caller' = locals
    /\ locals' = GriffinFrame(locals.linear, locals.num_iters)
    /\ calls' = Append(calls, "griffin_lim")
    /\ pc' = "griffin_lim_121"
    /\ UNCHANGED <<objVars, normVars, envVars, ret>>

GriffinLimCall(linear, n) ==
    /\ built = "ok"
    /\ pc = "idle"
    /\ locals' = GriffinFrame(linear, n)
    /\ caller' = Nil
    /\ calls' = <<"griffin_lim">>
    /\ ret' = Nil
    /\ pc' = "griffin_lim_121"
    /\ UNCHANGED <<objVars, normVars, envVars>>

\* Period of the model's random generator.
RngPeriod == 2

\* Lines 121-123: phases drawn from numpy's global generator, the magnitude
\* np.abs(linear), and the first inverse transform.
GriffinLim_121 ==
    /\ pc = "griffin_lim_121"
    /\ locals' = [locals EXCEPT
                      !.angles = [kind |-> "rand", seed |-> np_random],
                      !.linear_complex = np_abs(locals.linear),
                      !.audio = istft(cfg, np_abs(locals.linear), 1, np_random)]
    /\ np_random' = (np_random + 1) % RngPeriod
    /\ calls' = Append(calls, "istft")
    /\ pc' = "griffin_lim_125"
    /\ UNCHANGED <<objVars, normVars, rms_pad, parked, py_mapping, caller, ret>>

\* Line 125 taking one round too many.
GriffinLim_125_mut ==
    /\ pc = "griffin_lim_125"
    /\ pc' = IF locals.i <= locals.num_iters
             THEN "griffin_lim_126"
             ELSE "griffin_lim_129"
    /\ UNCHANGED <<objVars, normVars, envVars, caller, locals, calls, ret>>

\* Line 125: for _ in range(num_iters); i counts the rounds finished.
GriffinLim_125 ==
    /\ pc = "griffin_lim_125"
    /\ pc' = IF locals.i < locals.num_iters
             THEN "griffin_lim_126"
             ELSE "griffin_lim_129"
    /\ UNCHANGED <<objVars, normVars, envVars, caller, locals, calls, ret>>

\* Line 126: the phase of the forward transform of the current waveform.
GriffinLim_126 ==
    /\ pc = "griffin_lim_126"
    /\ LET r == stft(cfg, locals.audio)
       IN  /\ calls' = Append(calls, "stft")
           /\ IF r.kind = "raise"
              THEN Abort(r) /\ UNCHANGED locals
              ELSE /\ locals' = [locals EXCEPT
                                     !.angles = [kind |-> "angle",
                                                 of |-> locals.audio.k]]
                   /\ pc' = "griffin_lim_127"
                   /\ UNCHANGED ret
    /\ UNCHANGED <<objVars, normVars, envVars, caller>>

\* Line 127 taking the magnitude of the re-analysed waveform as well.
GriffinLim_127_mut ==
    /\ pc = "griffin_lim_127"
    /\ locals' = [locals EXCEPT
                      !.audio = istft(cfg, np_abs(stft(cfg, locals.audio).val),
                                      locals.audio.k + 1, locals.audio.seed),
                      !.i = @ + 1]
    /\ calls' = Append(calls, "istft")
    /\ pc' = "griffin_lim_125"
    /\ UNCHANGED <<objVars, normVars, envVars, caller, ret>>

\* Line 127: the inverse transform of linear_complex with that phase.
GriffinLim_127 ==
    /\ pc = "griffin_lim_127"
    /\ locals' = [locals EXCEPT
                      !.audio = istft(cfg, locals.linear_complex,
                                      locals.audio.k + 1, locals.audio.seed),
                      !.i = @ + 1]
    /\ calls' = Append(calls, "istft")
    /\ pc' = "griffin_lim_125"
    /\ UNCHANGED <<objVars, normVars, envVars, caller, ret>>

\* Line 129 (and, called from mel2wav, the return of line 81).
GriffinLim_129 ==
    /\ pc = "griffin_lim_129"
    /\ ret' = Value(locals.audio)
    /\ pc' = "idle"
    /\ UNCHANGED <<objVars, normVars, envVars, caller, locals, calls>>

(***************************************************************************)
(* The engine in use: one constructed configuration, calls one at a time   *)
(***************************************************************************)
\* Small engines with every combination of the switches the pipeline reads,
\* and the default sizes with and without normalisation.
PipeConfigs ==
    {[SmallConfig EXCEPT !.signal_norm = sn, !.clip_norm = cn,
                         !.do_trim_silence = ts] :
        sn \in BOOLEAN, cn \in BOOLEAN, ts \in BOOLEAN}
    \cup {[DefaultConfig EXCEPT !.signal_norm = sn] : sn \in BOOLEAN}

\* Signals given to wav2mel: empty, all zero, loud throughout, loud in the
\* second half.
PipeWavs(c) ==
    IF c.sample_rate = 22050
    THEN {Wav(22050, 0, 22050)}
    ELSE UNION {{Wav(n, 0, n), Wav(n, n \div 2, n), Wav(n, n, n)} :
                    n \in 0..MaxLen}

\* Most frames of a spectrogram given to mel2wav or griffin_lim.
MaxFrames == 3

\* Largest iteration budget.
MaxIters == 3

\* Mel spectrograms given to mel2wav: entries below, inside and above the
\* normalised range.
PipeMels(c) ==
    {Spectrogram(c.mel_channels, f, Value(e), <<>>) :
        f \in 1..MaxFrames, e \in {Int2R(-2), Int2R(0), Rat(1, 2)}}

PipeLinears(c) ==
    {Spectrogram(c.filter_length \div 2 + 1, f, Nil, <<>>) : f \in 1..MaxFrames}

InitPipe ==
    /\ cfg \in PipeConfigs
    /\ built = PostInit(cfg)
    /\ IdleCall
    /\ NormFresh
    /\ EnvInit

NextPipe ==
    \/ \E w \in PipeWavs(cfg) : Wav2melCall(w)
    \/ Wav2mel_59
    \/ Wav2mel_62
    \/ Wav2mel_63
    \/ Wav2mel_64
    \/ Wav2mel_66
    \/ Wav2mel_69
    \/ \E m \in PipeMels(cfg), n \in 0..MaxIters, pw \in {1, 2} : Mel2wavCall(m, n, pw)
    \/ Mel2wav_75
    \/ Mel2wav_78
    \/ Mel2wav_79
    \/ Mel2wav_81
    \/ \E l \in PipeLinears(cfg), n \in 0..MaxIters : GriffinLimCall(l, n)
    \/ GriffinLim_121
    \/ GriffinLim_125
    \/ GriffinLim_126
    \/ GriffinLim_127
    \/ GriffinLim_129

SpecPipe == InitPipe /\ [][NextPipe]_vars

(***************************************************************************)
(* Claims about the pipeline                                               *)
(***************************************************************************)
IsPrefix(a, b) == Len(a) <= Len(b) /\ SubSeq(b, 1, Len(a)) = a

Count(seq, x) == Cardinality({i \in 1..Len(seq) : seq[i] = x})

\* The library's refusal of an empty signal, surfaced to the caller.
EmptySignalError == Raise("ValueError")

InWav2mel == locals.kind = "frame" /\ locals.fn = "wav2mel"
Wav2melDone == InWav2mel /\ pc = "idle" /\ ret.kind # "nil"

\* The stages of wav2mel for the configuration, in the order of section 2.
Wav2melStages ==
    (IF cfg.do_trim_silence THEN <<"trim_silence">> ELSE <<>>)
        \o <<"stft", "abs", "linear_to_mel", "amp_to_db">>
        \o (IF cfg.signal_norm THEN <<"normalize">> ELSE <<>>)

\* The operations a returned spectrogram went through, starting at the STFT.
Wav2melOps ==
    <<"stft", "abs", "linear_to_mel", "amp_to_db">>
        \o (IF cfg.signal_norm THEN <<"normalize">> ELSE <<>>)

\* C5: wav2mel runs silence trimming (only when do_trim_silence), STFT,
\* magnitude and mel projection, decibel conversion and normalisation (only
\* when signal_norm), each once and in this order, each on the output of the
\* one before; what it returns is the output of the last stage that ran.  A
\* call leaves the sequence early only when the library refuses an empty
\* signal.
C5_Wav2melStageOrder ==
    InWav2mel =>
        /\ IsPrefix(calls, Wav2melStages)
        /\ Wav2melDone =>
              \/ /\ ret.kind = "value"
                 /\ calls = Wav2melStages
                 /\ ret.val = locals.mel_db
                 /\ ret.val.ops = Wav2melOps
                 /\ ret.val.e.val =
                        IF cfg.signal_norm
                        THEN normalize(cfg, amp_to_db(cfg, locals.mel_amp).e.val)
                        ELSE amp_to_db(cfg, locals.mel_amp).e.val
              \/ /\ ret = EmptySignalError
                 /\ \/ locals.wav.len = 0
                    \/ StripMargin(locals.wav, Samples(cfg, 10)).len = 0

C5_Witness ==
    /\ Wav2melDone
    /\ cfg.do_trim_silence
    /\ cfg.signal_norm
    /\ ret.kind = "value"
    /\ locals.wav # locals.arg
    /\ Len(calls) = 6
    /\ ret.val.ops[5] = "normalize"

InMel2wav ==
    \/ locals.kind = "frame" /\ locals.fn = "mel2wav"
    \/ caller.kind = "frame" /\ caller.fn = "mel2wav"
Mel2wavDone == InMel2wav /\ pc = "idle" /\ ret.kind # "nil"

\* The frame of mel2wav itself, running or suspended in griffin_lim.
Mel2wavFrame == IF caller.kind = "frame" THEN caller ELSE locals

\* griffin_lim's transforms for a budget of n rounds.
RECURSIVE Rounds(_)
Rounds(n) == IF n <= 0 THEN <<>> ELSE <<"stft", "istft">> \o Rounds(n - 1)

\* The stages of mel2wav up to the reconstruction.
Mel2wavStages ==
    (IF cfg.signal_norm THEN <<"denormalize">> ELSE <<>>)
        \o <<"db_to_amp", "mel_to_linear", "pow", "griffin_lim">>

\* C6: mel2wav runs denormalisation (exactly when signal_norm is set),
\* decibel-to-amplitude conversion, mel-to-linear projection, the exponent
\* and only then Griffin-Lim, each once and in this order; the exponent comes
\* before the first synthesis and never inside the iteration.  A call leaves
\* the sequence early only when the library refuses an empty signal.
C6_Mel2wavStageOrder ==
    InMel2wav =>
        /\ IsPrefix(calls, Mel2wavStages \o <<"istft">>
                               \o Rounds(Mel2wavFrame.num_iters))
        /\ Mel2wavDone =>
              \/ /\ ret.kind = "value"
                 /\ calls = Mel2wavStages \o <<"istft">>
                                \o Rounds(Mel2wavFrame.num_iters)
                 /\ locals.linear.ops = SubSeq(Mel2wavStages, 1,
                                               Len(Mel2wavStages) - 1)
              \/ ret = EmptySignalError

InGriffinLim == locals.kind = "frame" /\ locals.fn = "griffin_lim"
GriffinLimDone == InGriffinLim /\ pc = "idle" /\ ret.kind # "nil"

\* The transforms griffin_lim has made so far.
Transforms == SelectSeq(calls, LAMBDA x : x \in {"stft", "istft"})

\* C7: for every budget n >= 0 griffin_lim makes one inverse transform and
\* then exactly n rounds of one forward and one inverse transform, with no
\* other way out of the loop, and returns the waveform of the last inverse
\* transform.  A call leaves the loop early only when the library refuses an
\* empty waveform (a one-frame spectrogram).
C7_GriffinLimRounds ==
    InGriffinLim =>
        /\ IsPrefix(Transforms, <<"istft">> \o Rounds(locals.num_iters))
        /\ locals.i <= locals.num_iters
        /\ GriffinLimDone =>
              \/ /\ ret.kind = "value"
                 /\ locals.i = locals.num_iters
                 /\ Transforms = <<"istft">> \o Rounds(locals.num_iters)
                 /\ Count(calls, "stft") = locals.num_iters
                 /\ Count(calls, "istft") = locals.num_iters + 1
                 /\ ret.val = locals.audio
                 /\ ret.val.k = locals.num_iters + 1
              \/ /\ ret = EmptySignalError
                 /\ locals.linear.frames = 1
                 /\ locals.audio.len = 0

C7_Witness ==
    /\ GriffinLimDone
    /\ ret.kind = "value"
    /\ locals.num_iters >= 3
    /\ locals.linear.frames >= 2
    /\ ret.val.k = locals.num_iters + 1

\* The spectrogram of a finished stft inside wav2mel.
StftDone == InWav2mel /\ locals.linear # Nil

\* C10 as stated: a signal of length L >= win_length gives
\* floor((L - win_length) / hop_length) + 1 frames.
C10_AsStated ==
    (StftDone /\ locals.wav.len >= cfg.win_length) =>
        locals.linear.frames =
            (locals.wav.len - cfg.win_length) \div cfg.hop_length + 1

\* C10 amended: a signal of length L >= 1 gives floor(L / hop_length) + 1
\* frames, wav2mel's result has mel_channels rows and as many frames, and
\* one second at the default sizes gives the shape (80, 87).
C10_FrameCount ==
    /\ StftDone =>
          locals.linear.frames = locals.wav.len \div cfg.hop_length + 1
    /\ (Wav2melDone /\ ret.kind = "value") =>
          /\ ret.val.rows = cfg.mel_channels
          /\ ret.val.frames = locals.wav.len \div cfg.hop_length + 1
          /\ (cfg.sample_rate = 22050 /\ locals.wav.len = 22050) =>
                (ret.val.rows = 80 /\ ret.val.frames = 87)

C10_Witness ==
    /\ Wav2melDone
    /\ ret.kind = "value"
    /\ cfg.sample_rate = 22050
    /\ cfg.filter_length = 1024
    /\ cfg.hop_length = 256
    /\ cfg.win_length = 1024
    /\ cfg.mel_channels = 80
    /\ locals.wav.len = 22050
    /\ ret.val.rows = 80
    /\ ret.val.frames = 87

\* C15: a signal shorter than win_length is rejected by the forward transform
\* (stft, and hence wav2mel) with an error surfaced to the caller; no
\* spectrogram is returned for it.
C15_ShortSignalRejected ==
    (InWav2mel /\ Count(calls, "stft") > 0
               /\ locals.wav.len < cfg.win_length) =>
        /\ locals.linear = Nil
        /\ ret.kind = "raise"

\* C17: in every round the inverse transform is handed the magnitude of
\* griffin_lim's input: the magnitude taken before the loop (and the input
\* itself) is never modified by an iteration, and the waveform of every
\* inverse transform, the first and that of each round k, was synthesised
\* from it.
C17_OriginalMagnitude ==
    /\ [](InGriffinLim /\ locals.audio # Nil =>
             /\ locals.linear_complex = np_abs(locals.linear)
             /\ locals.audio.mag = np_abs(locals.linear)
             /\ caller # Nil => locals.linear = caller.linear)
    /\ [][(InGriffinLim /\ pc # "idle") =>
             /\ locals'.linear = locals.linear
             /\ locals.linear_complex # Nil =>
                   locals'.linear_complex = locals.linear_complex]_vars

\* Three rounds done on the output of mel2wav's projection.
C17_Witness ==
    /\ GriffinLimDone
    /\ ret.kind = "value"
    /\ caller # Nil
    /\ locals.i = 3
    /\ ret.val.k = 4
    /\ ret.val.mag = np_abs(caller.linear)

(***************************************************************************)
(* The single operations called directly                                   *)
(*                                                                         *)
(* A caller outside the class calls one operation at a time, on a fresh    *)
(* array or on the array the call before returned.  Each operation is one  *)
(* return statement, so a call is one step.                                *)
(***************************************************************************)
\* Engines with several non-zero gains (spec_gain), normalising and clipping.
OpsConfigs ==
    {[SmallConfig EXCEPT !.spec_gain = g] :
        g \in {Int2R(1), Int2R(2), Rat(1, 2), Int2R(-1), Int2R(20)}}

\* Amplitude spectrograms: entries below, at and above the floor 1e-5.
OpsAmps(c) ==
    {Spectrogram(c.mel_channels, 1, Value(q), <<>>) :
        q \in {Int2R(-7), Rat(-11, 2), Int2R(-5), Rat(-9, 2), Int2R(0), Int2R(2)}}

\* Most operations applied to one array, one after the other.
MaxChain == 3

\* The array the call before returned, if it returned one.
Returned ==
    IF ret.kind = "value" /\ Len(ret.val.ops) < MaxChain THEN {ret.val} ELSE {}

\* The domain of an array an operation returned: raw amplitude (mel or
\* linear), decibel or normalised.
Domain(m) ==
    LET op == m.ops[Len(m.ops)]
    IN  CASE op \in {"linear_to_mel", "db_to_amp"} -> "amp"
          [] op \in {"amp_to_db", "denormalize"} -> "db"
          [] op = "normalize" -> "norm"
          [] OTHER -> "linear"

\* An array from outside is given in the domain the operation reads.
InDomain(m, d) == m.ops = <<>> \/ Domain(m) = d

\* The entry of an array is followed through an operation only when it is a
\* number of the domain the operation reads; the result of any other call
\* is an array of the same shape whose entry is not followed (Nil).
Untracked(m, op) == [m EXCEPT !.e = Nil, !.ops = Append(@, op)]
Tracked(m, d) == m.e # Nil /\ InDomain(m, d)

\* amp_to_db(mel_amp), lines 93-94.
AmpToDbCall(a) ==
    /\ built = "ok"
    /\ pc = "idle"
    /\ locals' = [kind |-> "frame", fn |-> "amp_to_db", mel_amp |-> a]
    /\ ret' = Value(IF Tracked(a, "amp") THEN amp_to_db(cfg, a)
                    ELSE Untracked(a, "amp_to_db"))
    /\ calls' = <<"amp_to_db">>
    /\ UNCHANGED <<objVars, normVars, envVars, pc, caller>>

\* db_to_amp(mel_db), lines 96-97; from is the amplitude array a returned
\* argument was computed from.
DbToAmpCall(m) ==
    /\ built = "ok"
    /\ pc = "idle"
    /\ locals' = [kind |-> "frame", fn |-> "db_to_amp", mel_db |-> m,
                  from |-> IF m \in Returned /\ locals.kind = "frame"
                                              /\ locals.fn = "amp_to_db"
                           THEN locals.mel_amp ELSE Nil]
    /\ ret' = Value(IF Tracked(m, "db") THEN db_to_amp(cfg, m)
                    ELSE Untracked(m, "db_to_amp"))
    /\ calls' = <<"db_to_amp">>
    /\ UNCHANGED <<objVars, normVars, envVars, pc, caller>>

\* normalize(mel_db), lines 135-151.
NormalizeMelCall(m) ==
    /\ built = "ok"
    /\ pc = "idle"
    /\ locals' = [kind |-> "frame", fn |-> "normalize", mel_db |-> m]
    /\ ret' = Value(IF Tracked(m, "db") THEN normalize_mel(cfg, m)
                    ELSE Untracked(m, "normalize"))
    /\ calls' = <<"normalize">>
    /\ UNCHANGED <<objVars, normVars, envVars, pc, caller>>

\* denormalize(mel_db), lines 153-174; without clip_norm it reads the
\* unbound local whatever the array holds.
DenormalizeMelCall(m) ==
    /\ built = "ok"
    /\ pc = "idle"
    /\ locals' = [kind |-> "frame", fn |-> "denormalize", mel_db |-> m]
    /\ ret' = IF Tracked(m, "norm") THEN denormalize_mel(cfg, m)
              ELSE IF cfg.clip_norm THEN Value(Untracked(m, "denormalize"))
              ELSE Raise("UnboundLocalError")
    /\ calls' = <<"denormalize">>
    /\ UNCHANGED <<objVars, normVars, envVars, pc, caller>>

\* mel_to_linear(mel_amp, threshold), lines 87-91; prod is the entry of the
\* product with the pseudo-inverse that the result's entry comes from.
MelToLinearCall(m, threshold, prod) ==
    /\ built = "ok"
    /\ pc = "idle"
    /\ locals' = [kind |-> "frame", fn |-> "mel_to_linear", mel_amp |-> m,
                  threshold |-> threshold, product |-> prod]
    /\ ret' = Value(mel_to_linear(cfg, m, threshold, prod))
    /\ calls' = <<"mel_to_linear">>
    /\ UNCHANGED <<objVars, normVars, envVars, pc, caller>>

\* Decibel spectrograms given to db_to_amp from outside.
OpsDbs(c) ==
    {Spectrogram(c.mel_channels, 1, Value(e), <<>>) :
        e \in {Int2R(-100), Int2R(-5), Int2R(0), Int2R(20)}}

\* Normalised spectrograms given to denormalize from outside.
OpsNorms(c) ==
    {Spectrogram(c.mel_channels, 1, Value(e), <<>>) :
        e \in {Int2R(-2), Int2R(0), Rat(1, 2)}}

\* Thresholds given to mel_to_linear (the default and a larger one) and
\* entries of the product: negative, zero, below, at and above the default.
Thresholds == {Int2R(LogLinFloor), Int2R(-3)}
Products ==
    {Product(-1, Int2R(0)), Product(0, Int2R(0))}
        \cup {Product(1, q) : q \in {Int2R(-12), Int2R(-10), Int2R(-7),
                                     Int2R(-3), Int2R(1)}}

InitOps ==
    /\ cfg \in OpsConfigs
    /\ built = PostInit(cfg)
    /\ IdleCall
    /\ NormFresh
    /\ np_random = 0
    /\ rms_pad = "reflect"
    /\ parked = IdleContext
    /\ py_mapping = TRUE

NextOps ==
    \/ \E a \in OpsAmps(cfg) \cup Returned : AmpToDbCall(a)
    \/ \E m \in OpsDbs(cfg) \cup Returned : DbToAmpCall(m)
    \/ \E m \in OpsDbs(cfg) \cup Returned : NormalizeMelCall(m)
    \/ \E m \in OpsNorms(cfg) \cup Returned : DenormalizeMelCall(m)
    \/ \E m \in OpsAmps(cfg) \cup Returned, t \in Thresholds, q \in Products :
           MelToLinearCall(m, t, q)

SpecOps == InitOps /\ [][NextOps]_vars

(***************************************************************************)
(* Claims about the single operations                                      *)
(***************************************************************************)
\* A finished db_to_amp(amp_to_db(a)): the amplitude a and what came back.
RoundTripDone ==
    /\ locals.kind = "frame"
    /\ locals.fn = "db_to_amp"
    /\ locals.from # Nil
    /\ Tracked(locals.from, "amp")
    /\ ret.kind = "value"

AboveFloor(a) == RLe(Int2R(LogAmpFloor), a.e.val)

\* C11: for every non-zero gain, db_to_amp(amp_to_db(a)) is a for every
\* amplitude a at or above the floor 1e-5; for a below the floor amp_to_db
\* returns what it returns for the floor itself, and the round trip returns
\* the floor and not a.
C11_AmpDbRoundTrip ==
    RoundTripDone =>
        LET a == locals.from
            floor == [a EXCEPT !.e = Value(Int2R(LogAmpFloor))]
        IN  /\ AboveFloor(a) => ret.val.e = a.e
            /\ ~AboveFloor(a) =>
                  /\ locals.mel_db = amp_to_db(cfg, floor)
                  /\ ret.val.e = floor.e
                  /\ ret.val.e # a.e

C11_Witness ==
    /\ RoundTripDone
    /\ cfg.spec_gain = Int2R(-1)
    /\ ~AboveFloor(locals.from)
    /\ ret.val.e = Value(Int2R(LogAmpFloor))

(***************************************************************************)
(* Two threads on one constructed engine                                   *)
(*                                                                         *)
(* The calls are plain Python: the interpreter runs one thread at a time   *)
(* and may hand over to the other between any two statements.  pc, caller, *)
(* locals, calls and ret belong to the thread that runs, parked to the     *)
(* other one.                                                              *)
(***************************************************************************)
\* The running thread as the interpreter would suspend it.
Running == Context(pc, caller, locals, calls, ret)

\* The interpreter suspends the running thread and resumes the other.
Switch ==
    /\ parked' = Running
    /\ pc' = parked.pc
    /\ caller' = parked.caller
    /\ locals' = parked.locals
    /\ calls' = parked.calls
    /\ ret' = parked.ret
    /\ UNCHANGED <<objVars, normVars, np_random, rms_pad, py_mapping>>

\* What the two threads pass: one signal, mel spectrograms of one and two
\* frames, a magnitude spectrogram, and budgets of no and one round.
ConcWavs == {Wav(4, 0, 4)}
ConcMels(c) ==
    {Spectrogram(c.mel_channels, f, Value(Int2R(0)), <<>>) : f \in 1..2}
ConcLinears(c) == {Spectrogram(c.filter_length \div 2 + 1, 2, Nil, <<>>)}
ConcIters == {0, 1}

InitConc ==
    /\ cfg = SmallConfig
    /\ built = PostInit(cfg)
    /\ IdleCall
    /\ NormFresh
    /\ np_random = 0
    /\ rms_pad = "reflect"
    /\ parked = IdleContext
    /\ py_mapping = TRUE

NextConc ==
    \/ Switch
    \/ \E w \in ConcWavs : Wav2melCall(w)
    \/ Wav2mel_59
    \/ Wav2mel_62
    \/ Wav2mel_63
    \/ Wav2mel_64
    \/ Wav2mel_66
    \/ Wav2mel_69
    \/ \E m \in ConcMels(cfg), n \in ConcIters : Mel2wavCall(m, n, 1)
    \/ Mel2wav_75
    \/ Mel2wav_78
    \/ Mel2wav_79
    \/ Mel2wav_81
    \/ \E l \in ConcLinears(cfg), n \in ConcIters : GriffinLimCall(l, n)
    \/ GriffinLim_121
    \/ GriffinLim_125
    \/ GriffinLim_126
    \/ GriffinLim_127
    \/ GriffinLim_129

SpecConc == InitConc /\ [][NextConc]_vars

(***************************************************************************)
(* Claims about shared state and the random source                         *)
(***************************************************************************)
\* Both threads are inside a call of wav2mel, mel2wav or griffin_lim.
BothInFlight == pc # "idle" /\ parked.pc # "idle"

\* C13: while several callers run wav2mel and mel2wav concurrently on one
\* constructed engine, no step of an invocation writes state that another
\* invocation can observe: the engine (with its filterbank and
\* pseudo-inverse) is only read, and nothing else outside the invocations'
\* own frames changes, so the interleaving cannot change a call's result.
C13_NoSharedWrites ==
    [][BothInFlight =>
          /\ cfg' = cfg
          /\ built' = built
          /\ np_random' = np_random
          /\ rms_pad' = rms_pad]_vars

\* A finished run of griffin_lim (called directly or from mel2wav).
DoneRun(t) ==
    /\ t.pc = "idle"
    /\ t.locals.kind = "frame"
    /\ t.locals.fn = "griffin_lim"
    /\ t.ret.kind = "value"

\* Two runs were given identical arguments; griffin_lim and mel2wav take no
\* random source, so the arguments are all a caller supplies.
SameArguments(t, u) ==
    /\ t.caller = u.caller
    /\ t.locals.linear = u.locals.linear
    /\ t.locals.num_iters = u.locals.num_iters

\* C14: two runs of mel2wav / griffin_lim with identical arguments and
\* identically seeded supplied sources return identical waveforms, whatever
\* drew from the global generator in between.
C14_SeededRunsAgree ==
    (DoneRun(Running) /\ DoneRun(parked) /\ SameArguments(Running, parked)) =>
        ret.val = parked.ret.val

\* A finished direct call of one of the mel operations, and its argument.
OpDone(fn) ==
    /\ locals.kind = "frame"
    /\ locals.fn = fn
    /\ pc = "idle"
    /\ ret.kind # "nil"

OpArgument ==
    IF locals.fn \in {"amp_to_db", "mel_to_linear"}
    THEN locals.mel_amp
    ELSE locals.mel_db

\* The domain each operation accepts (sections 2 and 7 of the description).
Accepts(fn) ==
    CASE fn \in {"amp_to_db", "mel_to_linear"} -> "amp"
      [] fn \in {"normalize", "db_to_amp"} -> "db"
      [] fn = "denormalize" -> "norm"

MelOps == {"amp_to_db", "mel_to_linear", "normalize", "db_to_amp", "denormalize"}

\* The finished call was given a mel spectrogram of another domain than the
\* one its operation accepts.
Mismatched ==
    /\ \E fn \in MelOps : OpDone(fn)
    /\ OpArgument.ops # <<>>
    /\ Domain(OpArgument) \in {"amp", "db", "norm"}
    /\ Domain(OpArgument) # Accepts(locals.fn)

\* C16: a call on a mel spectrogram of the wrong domain is rejected with an
\* error and returns no numbers: normalize and db_to_amp accept only
\* decibel input, denormalize only normalised input, amp_to_db and
\* mel_to_linear only raw-amplitude input.
C16_DomainChecked == Mismatched => ret.kind = "raise"

\* C18: every entry of what mel_to_linear returns is >= the threshold
\* (default 1e-10), whatever the sign or size of the entry of the product
\* with the pseudo-inverse; an entry of the product above the threshold is
\* returned unchanged.
C18_LinearFloor ==
    OpDone("mel_to_linear") =>
        /\ ret.kind = "value"
        /\ RLe(locals.threshold, ret.val.e.val)
        /\ (locals.product.sgn = 1
                /\ RLt(locals.threshold, locals.product.log)) =>
              ret.val.e.val = locals.product.log
        /\ ret.val.rows = cfg.filter_length \div 2 + 1
        /\ ret.val.frames = locals.mel_amp.frames

C18_Witness ==
    /\ OpDone("mel_to_linear")
    /\ locals.threshold = Int2R(LogLinFloor)
    /\ locals.product.sgn = -1
    /\ ret.val.e.val = Int2R(LogLinFloor)

(***************************************************************************)
(* TrainingConfig.load_and_merge (lines 271-303)                           *)
(*                                                                         *)
(* A configuration object is a record of its fields, the audio and model   *)
(* sections records themselves.  A dictionary (to_dict's result, a parsed  *)
(* JSON file) is a function from keys to values, a value being None, a     *)
(* number Leaf(v) or a nested dictionary Map(m).  Of the fields, two       *)
(* top-level leaves (held as <<v>>, or <<>> for None), two audio fields    *)
(* and one model field are kept.                                           *)
(***************************************************************************)
None == [t |-> "none"]
Leaf(v) == [t |-> "leaf", v |-> v]
Map(m) == [t |-> "map", m |-> m]

\* TrainingConfig() with the dataclass defaults (lines 240-258).
DefaultTraining ==
    [seed |-> <<1234>>, best_loss |-> <<>>,
     audio |-> [hop_length |-> 256, sample_rate |-> 22050],
     model |-> [n_heads |-> 2]]

Sections == {"audio", "model"}

\* config.to_dict() (line 277): nested dataclasses become dictionaries.
to_dict(config) ==
    [k \in DOMAIN config |->
        IF k \in Sections
        THEN Map([f \in DOMAIN config[k] |-> Leaf(config[k][f])])
        ELSE IF config[k] = <<>> THEN None
        ELSE Leaf(config[k][1])]

\* isinstance(v, collections.Mapping) once the alias is looked up.
IsMapping(v) == v.t = "map"

\* recursive_update (lines 293-303): the dictionary base_dict has become, or
\* the exception raised.  The keys of new_dict are distinct, so the order the
\* loop takes them in does not matter.  collections.Mapping is looked up for
\* the first key already; Python 3.10 removed the alias.  A mapping given
\* for a key whose base value is a leaf other than None recurses into the
\* leaf, which has neither get nor item assignment.
RECURSIVE recursive_update(_, _, _)
recursive_update(base_dict, new_dict, has_mapping) ==
    IF DOMAIN new_dict = {}
    THEN Value(base_dict)
    ELSE IF ~has_mapping
    THEN Raise("AttributeError")
    ELSE LET Recurse(k) ==
                 /\ IsMapping(new_dict[k])
                 /\ k \in DOMAIN base_dict
                 /\ base_dict[k] # None
             Into(k) ==
                 IF IsMapping(base_dict[k])
                 THEN recursive_update(base_dict[k].m, new_dict[k].m,
                                       has_mapping)
                 ELSE IF DOMAIN new_dict[k].m = {}
                 THEN Value(base_dict[k])
                 ELSE IF \E f \in DOMAIN new_dict[k].m :
                             IsMapping(new_dict[k].m[f])
                 THEN Raise("AttributeError")
                 ELSE Raise("TypeError")
             failed == {k \in DOMAIN new_dict :
                           Recurse(k) /\ Into(k).kind = "raise"}
         IN  IF failed # {}
             THEN Into(CHOOSE k \in failed : TRUE)
             ELSE Value([k \in DOMAIN base_dict \cup DOMAIN new_dict |->
                            IF k \notin DOMAIN new_dict THEN base_dict[k]
                            ELSE IF Recurse(k)
                            THEN IF IsMapping(base_dict[k])
                                 THEN Map(Into(k).val)
                                 ELSE base_dict[k]
                            ELSE new_dict[k]])

\* The AudioConfig that from_dict constructs from an audio section.
AudioOf(a) ==
    [DefaultConfig EXCEPT !.hop_length = a.hop_length,
                          !.sample_rate = a.sample_rate]

\* TrainingConfig.from_dict(base_dict) (line 291): every field is taken from
\* its key, or from the dataclass default when the key is missing; keys that
\* are no fields are dropped; the values are not validated, but constructing
\* the AudioConfig runs its __post_init__.
from_dict(d) ==
    LET Field(k) ==
            IF k \notin DOMAIN d THEN DefaultTraining[k]
            ELSE IF d[k] = None THEN <<>>
            ELSE IF IsMapping(d[k]) THEN <<d[k].m>>
            ELSE <<d[k].v>>
        Section(k) ==
            IF k \notin DOMAIN d THEN DefaultTraining[k]
            ELSE IF ~IsMapping(d[k]) THEN d[k]
            ELSE [f \in DOMAIN DefaultTraining[k] |->
                     IF f \in DOMAIN d[k].m
                     THEN d[k].m[f].v
                     ELSE DefaultTraining[k][f]]
        made == [k \in DOMAIN DefaultTraining |->
                    IF k \in Sections THEN Section(k) ELSE Field(k)]
    IN  IF "audio" \in DOMAIN d /\ IsMapping(d["audio"])
            /\ PostInit(AudioOf(made.audio)) # "ok"
        THEN Raise(PostInit(AudioOf(made.audio)))
        ELSE Value(made)

\* The dictionary with the given <<key, value>> pairs.
Dict(pairs) ==
    [k \in {q[1] : q \in pairs} |-> (CHOOSE q \in pairs : q[1] = k)[2]]

\* Most files given to one call.
MaxFiles == 2

\* The base configurations: the defaults, and one that differs from them in
\* every field.
BaseConfigs ==
    {DefaultTraining,
     [seed |-> <<7>>, best_loss |-> <<3>>,
      audio |-> [hop_length |-> 128, sample_rate |-> 16000],
      model |-> [n_heads |-> 4]]}

\* Parsed JSON files: any of a seed, an audio section (one field, both, or a
\* sample rate below twice the default mel_fmax) and a model section; a file
\* with a key that is no field; and a file that gives a mapping for the leaf
\* seed.
JsonFiles ==
    {Dict(a \cup b \cup c) :
        a \in {{}, {<<"seed", Leaf(1)>>}, {<<"seed", Leaf(2)>>}},
        b \in {{}} \cup {{<<"audio", Map(Dict(f))>>} :
                    f \in {{<<"hop_length", Leaf(64)>>},
                           {<<"hop_length", Leaf(512)>>,
                            <<"sample_rate", Leaf(44100)>>},
                           {<<"sample_rate", Leaf(8000)>>}}},
        c \in {{}, {<<"model", Map(Dict({<<"n_heads", Leaf(1)>>}))>>}}}
    \cup {Dict({<<"note", Leaf(1)>>}),
          Dict({<<"seed", Map(Dict({<<"value", Leaf(1)>>}))>>})}

FileLists == UNION {[1..n -> JsonFiles] : n \in 0..MaxFiles}

\* Line 277.
LoadAndMerge_277 ==
    /\ pc = "load_and_merge_277"
    /\ locals' = [locals EXCEPT !.base_dict = to_dict(locals.config)]
    /\ pc' = "load_and_merge_278"
    /\ UNCHANGED <<objVars, normVars, envVars, caller, calls, ret>>

\* Lines 278-289: the next file is opened, parsed and laid over base_dict;
\* i counts the files done.
LoadAndMerge_278 ==
    /\ pc = "load_and_merge_278"
    /\ IF locals.i < Len(locals.config_files)
       THEN LET new_dict == locals.config_files[locals.i + 1]
                r == recursive_update(locals.base_dict, new_dict, py_mapping)
            IN  /\ calls' = Append(calls, "recursive_update")
                /\ IF r.kind = "raise"
                   THEN Abort(r) /\ UNCHANGED locals
                   ELSE /\ locals' = [locals EXCEPT !.base_dict = r.val,
                                                    !.i = @ + 1]
                        /\ UNCHANGED <<pc, ret>>
       ELSE /\ pc' = "load_and_merge_291"
            /\ UNCHANGED <<locals, calls, ret>>
    /\ UNCHANGED <<objVars, normVars, envVars, caller>>

\* Line 291.
LoadAndMerge_291 ==
    /\ pc = "load_and_merge_291"
    /\ ret' = from_dict(locals.base_dict)
    /\ pc' = "idle"
    /\ UNCHANGED <<objVars, normVars, envVars, caller, locals, calls>>

\* One pending call of load_and_merge, on either kind of interpreter.
InitMerge ==
    /\ cfg = DefaultConfig
    /\ built = "none"
    /\ locals \in {[kind |-> "frame", fn |-> "load_and_merge", config |-> b,
                     config_files |-> fs, base_dict |-> Nil, i |-> 0] :
                       b \in BaseConfigs, fs \in FileLists}
    /\ pc = "load_and_merge_277"
    /\ caller = Nil
    /\ calls = <<>>
    /\ ret = Nil
    /\ NormFresh
    /\ np_random = 0
    /\ rms_pad = "reflect"
    /\ parked = IdleContext
    /\ py_mapping \in BOOLEAN

NextMerge ==
    \/ LoadAndMerge_277
    \/ LoadAndMerge_278
    \/ LoadAndMerge_291

SpecMerge == InitMerge /\ [][NextMerge]_vars

(***************************************************************************)
(* Claims about load_and_merge                                             *)
(***************************************************************************)
MergeDone ==
    /\ locals.kind = "frame"
    /\ locals.fn = "load_and_merge"
    /\ pc = "idle"
    /\ ret.kind # "nil"

Largest(S) == CHOOSE i \in S : \A j \in S : j <= i

\* The value of the top-level leaf k: that of the last file giving it, the
\* base configuration's when none does.
MergedLeaf(config, files, k) ==
    LET giving == {i \in 1..Len(files) : k \in DOMAIN files[i]}
    IN  IF giving = {} THEN config[k]
        ELSE <<files[Largest(giving)][k].v>>

\* The same for the field f of the section k.
MergedField(config, files, k, f) ==
    LET giving == {i \in 1..Len(files) :
                      /\ k \in DOMAIN files[i]
                      /\ f \in DOMAIN files[i][k].m}
    IN  IF giving = {} THEN config[k][f]
        ELSE files[Largest(giving)][k].m[f].v

\* The configuration with every leaf merged on its own.
Merged(config, files) ==
    [k \in DOMAIN config |->
        IF k \in Sections
        THEN [f \in DOMAIN config[k] |-> MergedField(config, files, k, f)]
        ELSE MergedLeaf(config, files, k)]

\* Every file gives numbers for leaves and dictionaries of numbers for the
\* sections.
WellFormed(files) ==
    \A i \in 1..Len(files) : \A k \in DOMAIN files[i] :
        IF k \in Sections
        THEN /\ IsMapping(files[i][k])
             /\ \A f \in DOMAIN files[i][k].m : files[i][k].m[f].t = "leaf"
        ELSE files[i][k].t = "leaf"

\* C19: load_and_merge(config, files) lays the files over the base
\* configuration in the order given: a leaf given by several files ends
\* with the value of the last file that gives it, the audio and model
\* sections are merged key by key, and a leaf no file mentions keeps the
\* base configuration's value (for files of numbers and sections, and a
\* merged audio section the AudioConfig constructor accepts).
C19_MergeInOrder ==
    (MergeDone /\ WellFormed(locals.config_files)
               /\ PostInit(AudioOf(Merged(locals.config,
                                          locals.config_files).audio)) = "ok") =>
        /\ ret.kind = "value"
        /\ ret.val = Merged(locals.config, locals.config_files)

(***************************************************************************)
(* make_split (preprocess.py, lines 30-65)                                 *)
(*                                                                         *)
(* The rows of the input file are numbered 1 .. n in the order read; the   *)
(* two output files are held with the call, Nil while make_split has not   *)
(* opened them and Value(rows) afterwards.  val_split is an exact          *)
(* rational, not below zero.                                               *)
(***************************************************************************)
\* math.ceil of a rational.
Ceil(r) == -((-r[1]) \div r[2])

\* Most rows of an input file.
MaxRows == 4

\* The permutations of a list: what random.shuffle can leave behind.
Shuffles(rows) ==
    {[i \in 1..Len(rows) |-> rows[f[i]]] :
        f \in {g \in [1..Len(rows) -> 1..Len(rows)] :
                   \A i, j \in 1..Len(rows) : g[i] = g[j] => i = j}}

ValSplits == {Int2R(0), Rat(1, 10), Rat(1, 4), Rat(1, 2), Int2R(1), Rat(3, 2)}

\* Lines 39-44: the rows of the input file.
MakeSplit_39 ==
    /\ pc = "make_split_39"
    /\ locals' = [locals EXCEPT !.rows = locals.input]
    /\ pc' = "make_split_46"
    /\ UNCHANGED <<objVars, normVars, envVars, caller, calls, ret>>

\* Lines 46-47.
MakeSplit_46 ==
    /\ pc = "make_split_46"
    /\ LET num_val == Ceil(RMul(locals.val_split, Int2R(Len(locals.rows))))
       IN  /\ locals' = [locals EXCEPT !.num_val = num_val]
           /\ IF num_val > 0
              THEN pc' = "make_split_49" /\ UNCHANGED ret
              ELSE Abort(Raise("AssertionError"))
    /\ UNCHANGED <<objVars, normVars, envVars, caller, calls>>

\* Lines 49-50.
MakeSplit_49 ==
    /\ pc = "make_split_49"
    /\ LET num_train == Len(locals.rows) - locals.num_val
       IN  /\ locals' = [locals EXCEPT !.num_train = num_train]
           /\ IF num_train > 0
              THEN pc' = "make_split_52" /\ UNCHANGED ret
              ELSE Abort(Raise("AssertionError"))
    /\ UNCHANGED <<objVars, normVars, envVars, caller, calls>>

\* Lines 52-53.
MakeSplit_52 ==
    /\ pc = "make_split_52"
    /\ IF locals.val_random
       THEN \E shuffled \in Shuffles(locals.rows) :
                locals' = [locals EXCEPT !.rows = shuffled]
       ELSE UNCHANGED locals
    /\ pc' = "make_split_55"
    /\ UNCHANGED <<objVars, normVars, envVars, caller, calls, ret>>

\* Lines 55-59: both files are opened for writing, which empties them.
MakeSplit_55 ==
    /\ pc = "make_split_55"
    /\ locals' = [locals EXCEPT !.train_file = Value(<<>>),
                                !.val_file = Value(<<>>),
                                !.row_idx = 0]
    /\ pc' = "make_split_61"
    /\ UNCHANGED <<objVars, normVars, envVars, caller, calls, ret>>

\* Lines 61-65 sending the row at num_train to the training file as well.
MakeSplit_61_mut ==
    /\ pc = "make_split_61"
    /\ IF locals.row_idx < Len(locals.rows)
       THEN LET row == locals.rows[locals.row_idx + 1]
            IN  /\ locals' =
                      IF locals.row_idx <= locals.num_train
                      THEN [locals EXCEPT !.train_file = Value(Append(@.val, row)),
                                          !.row_idx = @ + 1]
                      ELSE [locals EXCEPT !.val_file = Value(Append(@.val, row)),
                                          !.row_idx = @ + 1]
                /\ UNCHANGED <<pc, ret>>
       ELSE /\ ret' = Value(<<>>)
            /\ pc' = "idle"
            /\ UNCHANGED locals
    /\ UNCHANGED <<objVars, normVars, envVars, caller, calls>>

\* Lines 61-65: one row per step (row_idx counts from 0), then the return.
MakeSplit_61 ==
    /\ pc = "make_split_61"
    /\ IF locals.row_idx < Len(locals.rows)
       THEN LET row == locals.rows[locals.row_idx + 1]
            IN  /\ locals' =
                      IF locals.row_idx < locals.num_train
                      THEN [locals EXCEPT !.train_file = Value(Append(@.val, row)),
                                          !.row_idx = @ + 1]
                      ELSE [locals EXCEPT !.val_file = Value(Append(@.val, row)),
                                          !.row_idx = @ + 1]
                /\ UNCHANGED <<pc, ret>>
       ELSE /\ ret' = Value(<<>>)
            /\ pc' = "idle"
            /\ UNCHANGED locals
    /\ UNCHANGED <<objVars, normVars, envVars, caller, calls>>

\* One pending call of make_split on a file of n rows.
InitSplit ==
    /\ cfg = DefaultConfig
    /\ built = "none"
    /\ locals \in {[kind |-> "frame", fn |-> "make_split",
                     input |-> [i \in 1..n |-> i], val_split |-> v,
                     val_random |-> r, rows |-> <<>>, num_val |-> 0,
                     num_train |-> 0, row_idx |-> 0, train_file |-> Nil,
                     val_file |-> Nil] :
                       n \in 0..MaxRows, v \in ValSplits, r \in BOOLEAN}
    /\ pc = "make_split_39"
    /\ caller = Nil
    /\ calls = <<>>
    /\ ret = Nil
    /\ NormFresh
    /\ np_random = 0
    /\ rms_pad = "reflect"
    /\ parked = IdleContext
    /\ py_mapping = TRUE

NextSplit ==
    \/ MakeSplit_39
    \/ MakeSplit_46
    \/ MakeSplit_49
    \/ MakeSplit_52
    \/ MakeSplit_55
    \/ MakeSplit_61

SpecSplit == InitSplit /\ [][NextSplit]_vars

(***************************************************************************)
(* Claims about make_split                                                 *)
(***************************************************************************)
InSplit == locals.kind = "frame" /\ locals.fn = "make_split"
SplitDone == InSplit /\ pc = "idle" /\ ret.kind # "nil"

\* ceil(val_split * n) for the n rows of the input.
NumVal == Ceil(RMul(locals.val_split, Int2R(Len(locals.input))))

\* What has been written so far, training file first.
Written ==
    (IF locals.train_file = Nil THEN <<>> ELSE locals.train_file.val)
        \o (IF locals.val_file = Nil THEN <<>> ELSE locals.val_file.val)

\* C20: make_split either fails before writing any row, exactly when
\* ceil(val_split * n) is 0 or is >= n, or writes every input row exactly
\* once: the first n - ceil(val_split * n) rows of the (possibly shuffled)
\* list to the training file and the other ceil(val_split * n) rows to the
\* validation file, so that both files are non-empty and no row is lost,
\* duplicated or written to both.
C20_SplitPartitions ==
    InSplit =>
        LET n == Len(locals.input)
        IN  /\ \A i, j \in 1..Len(Written) : Written[i] = Written[j] => i = j
            /\ SplitDone =>
                  IF NumVal = 0 \/ NumVal >= n
                  THEN /\ ret.kind = "raise"
                       /\ locals.train_file = Nil
                       /\ locals.val_file = Nil
                  ELSE /\ ret.kind = "value"
                       /\ locals.rows \in Shuffles(locals.input)
                       /\ ~locals.val_random => locals.rows = locals.input
                       /\ locals.train_file.val =
                              SubSeq(locals.rows, 1, n - NumVal)
                       /\ locals.val_file.val =
                              SubSeq(locals.rows, n - NumVal + 1, n)
                       /\ Len(locals.train_file.val) > 0
                       /\ Len(locals.val_file.val) = NumVal
                       /\ {Written[i] : i \in 1..Len(Written)} = 1..n
                       /\ Len(Written) = n

\* A shuffled file of four rows split three to one.
C20_Witness ==
    /\ SplitDone
    /\ ret.kind = "value"
    /\ locals.val_random
    /\ locals.rows # locals.input
    /\ Len(locals.train_file.val) = 3
    /\ Len(locals.val_file.val) = 1

(***************************************************************************)
(* make_phoneme_map (preprocess.py)                                        *)
(*                                                                         *)
(* phoneme_to_id is a Python dict: a list of <<phoneme, id>> pairs in      *)
(* insertion order, one pair per key.  A symbol that is not configured     *)
(* (None or the empty string, both false in a condition) is "".            *)
(***************************************************************************)

\* The phonemes of the model in code-point order, the order sorted() uses.
Alphabet == <<"#", "$", "^", "_", "a", "b">>

Ord(p) == CHOOSE i \in 1..Len(Alphabet) : Alphabet[i] = p

\* sorted(s) for a set of phonemes.
RECURSIVE sorted(_)
sorted(s) ==
    IF s = {} THEN <<>>
    ELSE LET least == CHOOSE p \in s : \A q \in s : Ord(p) <= Ord(q)
         IN  <<least>> \o sorted(s \ {least})

\* The keys of a dict.
Keys(d) == {d[i][1] : i \in 1..Len(d)}

\* d[key] for a key of the dict.
Lookup(d, key) == d[CHOOSE i \in 1..Len(d) : d[i][1] = key][2]

\* if symbol and (symbol not in phoneme_to_id):
\*     phoneme_to_id[symbol] = len(phoneme_to_id)
AddSymbol(d, symbol) ==
    IF symbol # "" /\ symbol \notin Keys(d)
    THEN Append(d, <<symbol, Len(d)>>)
    ELSE d

\* phonemes2ids.learn_phoneme_ids with no punctuation, tone or phoneme
\* mapping configured: every phoneme of every word is added to all_phonemes.
learn_phoneme_ids(word_phonemes, all_phonemes) ==
    all_phonemes \cup
        UNION {{word_phonemes[w][i] : i \in 1..Len(word_phonemes[w])} :
                   w \in 1..Len(word_phonemes)}

\* Largest id a pre-configured map gives.
MaxId == 2

\* Pre-configured maps: no entry, or one id per phoneme and no id twice.
PhonemeToIds ==
    {<<>>} \cup {<<<<"a", i>>>> : i \in 0..MaxId}
           \cup {<<<<"_", i>>>> : i \in 0..MaxId}
           \cup {<<<<"_", ij[1]>>, <<"a", ij[2]>>>> :
                     ij \in {p \in (0..MaxId) \X (0..MaxId) : p[1] # p[2]}}

PhonemesConfigs ==
    {[phoneme_to_id |-> m, pad |-> pad, bos |-> bos, eos |-> eos,
      minor_break |-> "", major_break |-> "", blank |-> blank,
      blank_word |-> "", separate |-> sep] :
        m \in PhonemeToIds, pad \in {"", "_"}, bos \in {"", "^"},
        eos \in {"", "$", "^"}, blank \in {"", "#"}, sep \in {{}, {"#"}}}

\* The words of the phoneme files, each a list of phonemes.
WordPhonemes ==
    {<<>>, <<<<"a">>>>, <<<<"b", "a">>>>, <<<<"a">>, <<"b", "b">>>>}

\* Lines 241-251: the words of every row of every input file.
MakePhonemeMap_241 ==
    /\ pc = "make_phoneme_map_241"
    /\ locals' = [locals EXCEPT !.word_phonemes = locals.input]
    /\ pc' = "make_phoneme_map_253"
    /\ UNCHANGED <<objVars, normVars, envVars, caller, calls, ret>>

\* Lines 253-254: the map starts as a copy of the pre-configured one.
MakePhonemeMap_253 ==
    /\ pc = "make_phoneme_map_253"
    /\ locals' = [locals EXCEPT !.all_phonemes = {},
                                !.phoneme_to_id = locals.phonemes.phoneme_to_id]
    /\ pc' = "make_phoneme_map_256"
    /\ UNCHANGED <<objVars, normVars, envVars, caller, calls, ret>>

\* Lines 256-266: pad, BOS and EOS.
MakePhonemeMap_256 ==
    /\ pc = "make_phoneme_map_256"
    /\ locals' = [locals EXCEPT !.phoneme_to_id =
                      AddSymbol(AddSymbol(AddSymbol(@, locals.phonemes.pad),
                                          locals.phonemes.bos),
                                locals.phonemes.eos)]
    /\ pc' = "make_phoneme_map_268"
    /\ UNCHANGED <<objVars, normVars, envVars, caller, calls, ret>>

\* Lines 268-288: minor break, major break, blank and blank word.
MakePhonemeMap_268 ==
    /\ pc = "make_phoneme_map_268"
    /\ locals' = [locals EXCEPT !.phoneme_to_id =
                      AddSymbol(AddSymbol(AddSymbol(AddSymbol(@,
                          locals.phonemes.minor_break),
                          locals.phonemes.major_break),
                          locals.phonemes.blank),
                          locals.phonemes.blank_word)]
    /\ pc' = "make_phoneme_map_290"
    /\ UNCHANGED <<objVars, normVars, envVars, caller, calls, ret>>

\* Lines 290-305: the stress symbols in sorted order, then the phonemes of
\* the words are collected.
MakePhonemeMap_290 ==
    /\ pc = "make_phoneme_map_290"
    /\ LET stresses == sorted(locals.phonemes.separate)
           Add[i \in 0..Len(stresses)] ==
               IF i = 0 THEN locals.phoneme_to_id
               ELSE AddSymbol(Add[i - 1], stresses[i])
       IN  locals' = [locals EXCEPT
                        !.phoneme_to_id = Add[Len(stresses)],
                        !.all_phonemes =
                            learn_phoneme_ids(locals.word_phonemes, @),
                        !.pending =
                            sorted(learn_phoneme_ids(locals.word_phonemes,
                                                     locals.all_phonemes))]
    /\ pc' = "make_phoneme_map_307"
    /\ UNCHANGED <<objVars, normVars, envVars, caller, calls, ret>>

\* Lines 307-309: one learned phoneme per step, in sorted order.
MakePhonemeMap_307 ==
    /\ pc = "make_phoneme_map_307"
    /\ IF locals.pending # <<>>
       THEN /\ locals' = [locals EXCEPT
                            !.phoneme_to_id = AddSymbol(@, Head(locals.pending)),
                            !.pending = Tail(@)]
            /\ UNCHANGED pc
       ELSE /\ pc' = "make_phoneme_map_312"
            /\ UNCHANGED locals
    /\ UNCHANGED <<objVars, normVars, envVars, caller, calls, ret>>

\* Lines 312-314: one line "id phoneme" per entry, in insertion order.
MakePhonemeMap_312 ==
    /\ pc = "make_phoneme_map_312"
    /\ locals' = [locals EXCEPT !.output_file =
                      Value([i \in 1..Len(locals.phoneme_to_id) |->
                                [phoneme_idx |-> locals.phoneme_to_id[i][2],
                                 phoneme |-> locals.phoneme_to_id[i][1]]])]
    /\ ret' = Value(<<>>)
    /\ pc' = "idle"
    /\ UNCHANGED <<objVars, normVars, envVars, caller, calls>>

\* One pending call of make_phoneme_map.
InitMap ==
    /\ cfg = DefaultConfig
    /\ built = "none"
    /\ locals \in {[kind |-> "frame", fn |-> "make_phoneme_map",
                     phonemes |-> c, input |-> w, word_phonemes |-> <<>>,
                     all_phonemes |-> {}, phoneme_to_id |-> <<>>,
                     pending |-> <<>>, output_file |-> Nil] :
                       c \in PhonemesConfigs, w \in WordPhonemes}
    /\ pc = "make_phoneme_map_241"
    /\ caller = Nil
    /\ calls = <<>>
    /\ ret = Nil
    /\ NormFresh
    /\ np_random = 0
    /\ rms_pad = "reflect"
    /\ parked = IdleContext
    /\ py_mapping = TRUE

NextMap ==
    \/ MakePhonemeMap_241
    \/ MakePhonemeMap_253
    \/ MakePhonemeMap_256
    \/ MakePhonemeMap_268
    \/ MakePhonemeMap_290
    \/ MakePhonemeMap_307
    \/ MakePhonemeMap_312

SpecMap == InitMap /\ [][NextMap]_vars

(***************************************************************************)
(* Claims about make_phoneme_map                                           *)
(***************************************************************************)
InMap == locals.kind = "frame" /\ locals.fn = "make_phoneme_map"
MapDone == InMap /\ pc = "idle" /\ ret.kind = "value"

\* C21: the phoneme map written by make_phoneme_map is injective: no two
\* different phonemes are written with the same id, and every pre-configured
\* phoneme is written with its pre-configured id.
C21_MapInjective ==
    MapDone =>
        LET lines == locals.output_file.val
            given == locals.phonemes.phoneme_to_id
        IN  /\ \A i, j \in 1..Len(lines) :
                   lines[i].phoneme_idx = lines[j].phoneme_idx
                       => lines[i].phoneme = lines[j].phoneme
            /\ \A p \in Keys(given) :
                   \E i \in 1..Len(lines) :
                       /\ lines[i].phoneme = p
                       /\ lines[i].phoneme_idx = Lookup(given, p)

(***************************************************************************)
(* make_kaldi_align_csv (preprocess.py)                                    *)
(*                                                                         *)
(* Times are exact rationals in seconds.  A line of the input file is      *)
(* blank or the JSON object of one aligned utterance; every word of an     *)
(* utterance has at least one phone, and the phones of an utterance        *)
(* follow one another from 0 s, as the aligner writes them.                *)
(***************************************************************************)
min_sec == Rat(1, 2)
buffer_sec == Rat(3, 20)
skip_phones == {"SIL", "SPN", "NSN"}

\* int(x) for a float x: the fractional part is dropped.
int(r) == IF r[1] >= 0 THEN r[1] \div r[2] ELSE -((-r[1]) \div r[2])

\* Most words of an utterance.
MaxWords == 3

\* A phone before its place in the utterance is known.
Phone(text, duration_sec) == [text |-> text, duration_sec |-> duration_sec]

\* The words an utterance is made of: silence, a word of one phone that is
\* 0.1 s, 0.2005 s or 0.35 s long, and a word whose second phone is noise.
WordShapes ==
    {[text |-> "<eps>", phones |-> <<Phone("SIL", Rat(1, 5))>>],
     [text |-> "b", phones |-> <<Phone("b", Rat(1, 10)),
                                 Phone("SPN", Rat(1, 10))>>]}
        \cup {[text |-> "a", phones |-> <<Phone("a", d)>>] :
                  d \in {Rat(1, 10), Rat(401, 2000), Rat(7, 20)}}

\* Time taken by the first n phones of a word.
RECURSIVE PhonesLength(_, _)
PhonesLength(phones, n) ==
    IF n = 0 THEN Int2R(0)
    ELSE RAdd(PhonesLength(phones, n - 1), phones[n].duration_sec)

\* Time taken by the first n words.
RECURSIVE WordsLength(_, _)
WordsLength(shapes, n) ==
    IF n = 0 THEN Int2R(0)
    ELSE RAdd(WordsLength(shapes, n - 1),
              PhonesLength(shapes[n].phones, Len(shapes[n].phones)))

\* The JSON object of an utterance: {"id": ..., "words": [{"text": ...,
\* "phones": [{"text": ..., "start_sec": ..., "duration_sec": ...}]}]}.
Utterance(id, shapes) ==
    [kind |-> "utterance", id |-> id,
     words |-> [w \in 1..Len(shapes) |->
        [text |-> shapes[w].text,
         phones |-> [i \in 1..Len(shapes[w].phones) |->
            [text |-> shapes[w].phones[i].text,
             start_sec |-> RAdd(WordsLength(shapes, w - 1),
                                PhonesLength(shapes[w].phones, i - 1)),
             duration_sec |-> shapes[w].phones[i].duration_sec]]]]]

\* A line that is empty once stripped.
BlankLine == [kind |-> "blank"]

Utterances(id) ==
    {Utterance(id, shapes) :
        shapes \in UNION {[1..n -> WordShapes] : n \in 0..MaxWords}}

\* Input files: one utterance, alone, after a blank line, or followed by
\* an utterance of two words.
AlignFiles ==
    UNION {{<<u>>, <<BlankLine, u>>,
            <<u, Utterance("u2",
                   <<[text |-> "a", phones |-> <<Phone("a", Rat(7, 20))>>],
                     [text |-> "a", phones |-> <<Phone("a", Rat(1, 10))>>]>>)>>} :
               u \in Utterances("u1")}

\* Lines 465-475: both files are opened; the target starts empty.
MakeKaldiAlignCsv_465 ==
    /\ pc = "make_kaldi_align_csv_465"
    /\ locals' = [locals EXCEPT !.lines = locals.input,
                                !.output_file = Value(<<>>)]
    /\ pc' = "make_kaldi_align_csv_477"
    /\ UNCHANGED <<objVars, normVars, envVars, caller, calls, ret>>

\* Lines 477-489: the next line; a blank one is passed over.
MakeKaldiAlignCsv_477 ==
    /\ pc = "make_kaldi_align_csv_477"
    /\ IF locals.lines = <<>>
       THEN /\ ret' = Value(<<>>)
            /\ pc' = "idle"
            /\ UNCHANGED locals
       ELSE /\ IF Head(locals.lines).kind = "blank"
               THEN /\ locals' = [locals EXCEPT !.lines = Tail(@)]
                    /\ UNCHANGED pc
               ELSE /\ locals' = [locals EXCEPT
                         !.lines = Tail(@),
                         !.utt_id = Head(locals.lines).id,
                         !.start_sec = Int2R(-1),
                         !.end_sec = Int2R(-1),
                         !.all_word_phonemes = <<>>,
                         !.words = Head(locals.lines).words]
                    /\ pc' = "make_kaldi_align_csv_491"
            /\ UNCHANGED ret
    /\ UNCHANGED <<objVars, normVars, envVars, caller, calls>>

\* Lines 491-507: one word per step.  The first word that is not <eps>
\* sets start_sec, every later one sets end_sec.
MakeKaldiAlignCsv_491 ==
    /\ pc = "make_kaldi_align_csv_491"
    /\ IF locals.words = <<>>
       THEN /\ pc' = "make_kaldi_align_csv_510"
            /\ UNCHANGED locals
       ELSE LET word == Head(locals.words)
                word_phonemes ==
                    SelectSeq([i \in 1..Len(word.phones) |-> word.phones[i].text],
                              LAMBDA t : t \notin skip_phones)
                last == word.phones[Len(word.phones)]
            IN  /\ locals' = [locals EXCEPT
                      !.words = Tail(@),
                      !.all_word_phonemes =
                          IF word_phonemes # <<>>
                          THEN Append(@, word_phonemes) ELSE @,
                      !.start_sec =
                          IF word.text # "<eps>" /\ RLt(@, Int2R(0))
                          THEN word.phones[1].start_sec ELSE @,
                      !.end_sec =
                          IF word.text # "<eps>"
                             /\ ~RLt(locals.start_sec, Int2R(0))
                          THEN RAdd(last.start_sec, last.duration_sec) ELSE @]
                /\ UNCHANGED pc
    /\ UNCHANGED <<objVars, normVars, envVars, caller, calls, ret>>

\* Lines 509-524: the buffered interval; the row is written unless the
\* interval is reversed or shorter than min_sec.  The fourth field holds
\* the words' phonemes that join_word_phonemes makes one string of.
MakeKaldiAlignCsv_510 ==
    /\ pc = "make_kaldi_align_csv_510"
    /\ LET start_sec == RMax(Int2R(0), RSub(locals.start_sec, buffer_sec))
           end_sec == RAdd(locals.end_sec, buffer_sec)
           start_ms == int(RMul(start_sec, Int2R(1000)))
           end_ms == int(RMul(end_sec, Int2R(1000)))
       IN  locals' =
              IF RLt(end_sec, start_sec) \/ RLt(RSub(end_sec, start_sec), min_sec)
              THEN [locals EXCEPT !.start_sec = start_sec, !.end_sec = end_sec]
              ELSE [locals EXCEPT
                      !.start_sec = start_sec,
                      !.end_sec = end_sec,
                      !.output_file = Value(Append(@.val,
                          [utt_id |-> locals.utt_id,
                           start_ms |-> start_ms,
                           end_ms |-> end_ms,
                           phonemes |-> locals.all_word_phonemes]))]
    /\ pc' = "make_kaldi_align_csv_477"
    /\ UNCHANGED <<objVars, normVars, envVars, caller, calls, ret>>

\* One pending call of make_kaldi_align_csv.
InitKaldi ==
    /\ cfg = DefaultConfig
    /\ built = "none"
    /\ locals \in {[kind |-> "frame", fn |-> "make_kaldi_align_csv",
                     input |-> f, lines |-> <<>>, utt_id |-> "",
                     start_sec |-> Int2R(-1), end_sec |-> Int2R(-1),
                     all_word_phonemes |-> <<>>, words |-> <<>>,
                     output_file |-> Nil] : f \in AlignFiles}
    /\ pc = "make_kaldi_align_csv_465"
    /\ caller = Nil
    /\ calls = <<>>
    /\ ret = Nil
    /\ NormFresh
    /\ np_random = 0
    /\ rms_pad = "reflect"
    /\ parked = IdleContext
    /\ py_mapping = TRUE

NextKaldi ==
    \/ MakeKaldiAlignCsv_465
    \/ MakeKaldiAlignCsv_477
    \/ MakeKaldiAlignCsv_491
    \/ MakeKaldiAlignCsv_510

SpecKaldi == InitKaldi /\ [][NextKaldi]_vars

(***************************************************************************)
(* Claims about make_kaldi_align_csv                                       *)
(***************************************************************************)
InKaldi == locals.kind = "frame" /\ locals.fn = "make_kaldi_align_csv"
KaldiDone == InKaldi /\ pc = "idle" /\ ret.kind = "value"

\* The words of an utterance whose text is not <eps>, by position.
Spoken(u) == {w \in 1..Len(u.words) : u.words[w].text # "<eps>"}

\* Start of the first such word's first phone minus 0.15 s, not below 0.
IntervalStart(u) ==
    LET first == CHOOSE w \in Spoken(u) : \A v \in Spoken(u) : w <= v
    IN  RMax(Int2R(0), RSub(u.words[first].phones[1].start_sec, buffer_sec))

\* End of the last such word's last phone plus 0.15 s.
IntervalEnd(u) ==
    LET last == CHOOSE w \in Spoken(u) : \A v \in Spoken(u) : v <= w
        phone == u.words[last].phones[Len(u.words[last].phones)]
    IN  RAdd(RAdd(phone.start_sec, phone.duration_sec), buffer_sec)

\* The rows written for an utterance, by position in the target file.
RowsOf(u) ==
    {i \in 1..Len(locals.output_file.val) :
        locals.output_file.val[i].utt_id = u.id}

\* C22: for every aligned utterance with at least one word whose text is not
\* <eps>, make_kaldi_align_csv writes a row (id, start_ms, end_ms, phonemes)
\* for the interval from the first such word's start minus 0.15 s (not below
\* 0) to the last such word's end plus 0.15 s if and only if that interval is
\* at least 0.5 s long; every written row has 0 <= start_ms and
\* end_ms - start_ms >= 500 up to millisecond truncation (more than 499).
C22_RowIffLongEnough ==
    KaldiDone =>
        /\ \A l \in 1..Len(locals.input) :
              LET u == locals.input[l]
              IN  (u.kind = "utterance" /\ Spoken(u) # {}) =>
                    IF RLe(min_sec, RSub(IntervalEnd(u), IntervalStart(u)))
                    THEN /\ Cardinality(RowsOf(u)) = 1
                         /\ \A i \in RowsOf(u) :
                              LET row == locals.output_file.val[i]
                              IN  /\ row.start_ms =
                                       int(RMul(IntervalStart(u), Int2R(1000)))
                                  /\ row.end_ms =
                                       int(RMul(IntervalEnd(u), Int2R(1000)))
                    ELSE RowsOf(u) = {}
        /\ \A i \in 1..Len(locals.output_file.val) :
              LET row == locals.output_file.val[i]
              IN  /\ 0 <= row.start_ms
                  /\ row.end_ms - row.start_ms >= 499

====
